---- MODULE Spec2Model ----
(***************************************************************************)
(* A model of the release tooling of ddk-ffi.  The core is the unified     *)
(* release pipeline, scripts/unified-release.js: argument parsing, the     *)
(* sequence of steps of main(), the external commands each step runs, and  *)
(* the effects of those commands on the checkout, the remote, the GitHub   *)
(* release and the npm registry.                                           *)
(*                                                                         *)
(* A text (a version, a command line argument) is a sequence of one        *)
(* character strings, so that the validation regular expression is         *)
(* computed on it.  Command names and log messages are plain strings.      *)
(***************************************************************************)
EXTENDS Integers, Sequences, FiniteSets, TLC

(***************************************************************************)
(* Bounds of the model.                                                    *)
(***************************************************************************)
\* longest command line argument enumerated by InitArgs
MaxArgLen == 6
\* most .xcframework bundles found in ddk-rn/ios
MaxFrameworks == 2
\* longest text of the generated C++ file given to the hot fix script
MaxCppLen == 6
\* most runs of the hot fix script in a row
MaxHotFixRuns == 3
\* most calls of createReleaseArtifacts in a row
MaxPackagerRuns == 2
\* most functions declared in the UDL file, and in lib.rs
MaxFns == 2
\* most runs of the binary download postinstall in a row
MaxInstalls == 2

VARIABLES
    args,        \* process.argv.slice(2)
    darwin,      \* process.platform === "darwin"
    ndk,         \* process.env.ANDROID_NDK_ROOT || process.env.NDK_HOME
    pc,          \* the position of the script
    exitCode,    \* the exit code of the process, meaningful once pc = "exited"
    out,         \* what was printed that matters: errors, warnings, usage, success
    trace,       \* every step taken so far, in order, with its outcome
    manifests,   \* the four manifests: whether the file exists, and its version
    content,     \* the text of each manifest
    original,    \* the text of each manifest when the script started
    packaged,    \* what each call of createReleaseArtifacts found and returned
    cppFile,     \* ddk-rn/cpp/bennyblader-ddk-rn.cpp: whether it exists, and its text
    podspecFile, \* ddk-rn/DdkRn.podspec: "absent", "ok" (with xcconfig), "stripped"
                 \* (without) or "noanchor" (without, and no vendored_frameworks line)
    git,         \* index, local commit and tag, remote branch and tag
    release,     \* the versions the GitHub release v{version} was created for
    ghCommands,  \* the gh release create command lines that were run
    published,   \* the npm packages published by this run
    fsys,        \* release-archives: the directory, temp-ios, notes file, files
    outputs,     \* build outputs found on disk by createReleaseArtifacts
    artifacts,   \* { rnArtifacts, tsArtifacts } of createReleaseArtifacts
    observed,    \* what `npm view` printed for each package
    runs,        \* two runs of the script on one checkout: where each of them is
    parity,      \* verify-parity.cjs: the files it reads
    rnRelease,   \* ddk-rn/scripts/release.js: currentVersion and newVersion of main
    install      \* the postinstall scripts of ddk-rn: the environment and the package directory

env == <<args, darwin, ndk>>
ctl == <<pc, exitCode, out, trace>>
files == <<content, original, packaged>>
others == <<runs, parity, rnRelease, install>>
world == <<others, files, manifests, cppFile, podspecFile, git, release, ghCommands, published, fsys, outputs, artifacts, observed>>
vars == <<args, darwin, ndk, runs, parity, rnRelease, install, pc, exitCode, out, trace, manifests, content, original, packaged,
          cppFile,
          podspecFile, git, release, ghCommands, published, fsys, outputs, artifacts, observed>>

(***************************************************************************)
(* Texts.                                                                  *)
(***************************************************************************)
Digits == {"0", "1", "2", "3", "4", "5", "6", "7", "8", "9"}
\* \w of a JavaScript regular expression: [A-Za-z0-9_]
WordChars ==
    Digits \cup {"_"} \cup
    {"a", "b", "c", "d", "e", "f", "g", "h", "i", "j", "k", "l", "m",
     "n", "o", "p", "q", "r", "s", "t", "u", "v", "w", "x", "y", "z"} \cup
    {"A", "B", "C", "D", "E", "F", "G", "H", "I", "J", "K", "L", "M",
     "N", "O", "P", "Q", "R", "S", "T", "U", "V", "W", "X", "Y", "Z"}

HelpLong == <<"-", "-", "h", "e", "l", "p">>
HelpShort == <<"-", "h">>

\* s[lo..hi] is a non-empty run of characters of cls
RunOf(s, lo, hi, cls) == lo <= hi /\ \A k \in lo..hi : s[k] \in cls

\* mutant: the expression without its final $, /^\d+\.\d+\.\d+(-[\w.]+)?/
VersionFormatTest_unanchored(s) ==
    \E i \in 1..Len(s), j \in 1..Len(s), e \in 1..Len(s) :
        /\ i < j /\ j < e
        /\ RunOf(s, 1, i - 1, Digits)
        /\ s[i] = "."
        /\ RunOf(s, i + 1, j - 1, Digits)
        /\ s[j] = "."
        /\ RunOf(s, j + 1, e, Digits)

\* /^\d+\.\d+\.\d+(-[\w.]+)?$/.test(s)
VersionFormatTest(s) ==
    \E i \in 1..Len(s), j \in 1..Len(s), e \in 1..Len(s) :
        /\ i < j /\ j < e
        /\ RunOf(s, 1, i - 1, Digits)
        /\ s[i] = "."
        /\ RunOf(s, i + 1, j - 1, Digits)
        /\ s[j] = "."
        /\ RunOf(s, j + 1, e, Digits)
        /\ \/ e = Len(s)
           \/ /\ s[e + 1] = "-"
              /\ RunOf(s, e + 2, Len(s), WordChars \cup {"."})

\* args.includes("--help") || args.includes("-h")
HelpRequested(a) == \E i \in 1..Len(a) : a[i] \in {HelpLong, HelpShort}

\* !version, for version = args[0]: undefined or the empty string
VersionMissing(a) == Len(a) = 0 \/ a[1] = <<>>

\* const version = args[0], once it is known to be there
version == args[1]

NoVersion == <<>>

(***************************************************************************)
(* Log entries and trace entries.                                          *)
(***************************************************************************)
\* console.log(m)
Line(m) ==
    [msg |-> m, cmd |-> "", rn |-> NoVersion, ts |-> NoVersion, stream |-> "stdout"]
\* console.error(m), console.warn(m)
ErrLine(m) == [Line(m) EXCEPT !.stream = "stderr"]
\* console.error(`Command failed: ${command}`)
CommandFailedLine(command) == [ErrLine("Command failed") EXCEPT !.cmd = command]

\* a step of the script: the function of main it belongs to, the external
\* command (or in-process operation) it is, where it runs, the version its
\* command line embeds, and whether it passed (the command exited zero; for
\* the clean-tree check, it also reported no change)
Step(fn, command, cwd, ver, ok) ==
    [fn |-> fn, cmd |-> command, cwd |-> cwd, ver |-> ver, ok |-> ok]

Range(s) == {s[k] : k \in 1..Len(s)}

(***************************************************************************)
(* The manifests.                                                          *)
(***************************************************************************)
CargoPaths == <<"ddk-ffi/Cargo.toml", "ddk-ts/Cargo.toml">>
PackagePaths == <<"ddk-rn/package.json", "ddk-ts/package.json">>
Manifests == Range(CargoPaths) \cup Range(PackagePaths)

\* the version of the manifests before the release
OldVersion == <<"1", ".", "1", ".", "9">>

V120 == <<"1", ".", "2", ".", "0">>
V12 == <<"1", ".", "2">>
V120node == <<"1", ".", "2", ".", "0", "-", "b", ".", "n", "o", "d", "e", "2">>

\* command lines of the pipeline runs
SampleArgs ==
    {<<>>, <<V120>>, <<V120node>>, <<V12>>, <<V120, HelpShort>>, <<HelpLong>>}

(***************************************************************************)
(* Leaving the script.                                                     *)
(***************************************************************************)
\* process.exit(code), after printing lines
Exit(lines, code) ==
    /\ out' = out \o lines
    /\ exitCode' = code
    /\ pc' = "exited"

\* an error thrown inside main's try block: runCommand has printed the
\* failed command (when a command threw), and the catch of main prints the
\* failure and the remediation checklist, then process.exit(1)
Checklist ==
    <<ErrLine("Release failed"),
      ErrLine("You may need to:"),
      ErrLine("1. Check git status and clean up any partial commits"),
      ErrLine("2. Delete any tags that were created"),
      ErrLine("3. Check npm and GitHub for any partial releases")>>

\* mutant: the catch of main prints and ends the process with code 0
MainCatch_exit0(lines) == Exit(lines \o Checklist, 0)

\* mutant: the catch of main exits without the checklist
MainCatch_silent(lines) == Exit(Append(lines, ErrLine("Release failed")), 1)

MainCatch(lines) == Exit(lines \o Checklist, 1)

\* a step that returned: continue at next
Goto(next) ==
    /\ pc' = next
    /\ exitCode' = exitCode

(***************************************************************************)
(* Argument parsing, before main.                                          *)
(***************************************************************************)
\* mutant: the format of the version is validated before the help options are
\* looked at
ParseArgs_validateFirst ==
    /\ pc = "start"
    /\ IF VersionMissing(args)
         THEN Exit(<<Line("Usage")>>, IF HelpRequested(args) THEN 0 ELSE 1)
         ELSE IF ~VersionFormatTest(version)
                THEN Exit(<<ErrLine("Invalid version format")>>, 1)
                ELSE IF HelpRequested(args)
                       THEN Exit(<<Line("Usage")>>, 0)
                       ELSE /\ Goto("checkGitStatus")
                            /\ out' = out
    /\ UNCHANGED <<env, trace, world>>

ParseArgs ==
    /\ pc = "start"
    /\ IF VersionMissing(args) \/ HelpRequested(args)
         THEN Exit(<<Line("Usage")>>, IF HelpRequested(args) THEN 0 ELSE 1)
         ELSE IF ~VersionFormatTest(version)
                THEN Exit(<<ErrLine("Invalid version format")>>, 1)
                ELSE /\ Goto("checkGitStatus")
                     /\ out' = out
    /\ UNCHANGED <<env, trace, world>>


(***************************************************************************)
(* runCommand inside the try block of main, with no catch of its own       *)
(* around it: the command is run in cwd; if it exits non-zero runCommand   *)
(* prints it and rethrows, and the error reaches the catch of main.        *)
(***************************************************************************)
\* mutant: the error of a failed command is swallowed
runCommand_swallow(fn, command, cwd, ver, ok, next) ==
    /\ trace' = Append(trace, Step(fn, command, cwd, ver, ok))
    /\ Goto(next)
    /\ out' = IF ok THEN out ELSE Append(out, CommandFailedLine(command))

runCommand(fn, command, cwd, ver, ok, next) ==
    /\ trace' = Append(trace, Step(fn, command, cwd, ver, ok))
    /\ IF ok
         THEN /\ Goto(next)
              /\ out' = out
         ELSE MainCatch(<<CommandFailedLine(command)>>)

(***************************************************************************)
(* Step 1: checkGitStatus.                                                 *)
(***************************************************************************)
\* mutant: a dirty tree is reported and the run goes on
checkGitStatus_warnOnly ==
    /\ pc = "checkGitStatus"
    /\ \E status \in {"fails", "clean", "dirty"} :
         /\ trace' = Append(trace, Step("checkGitStatus", "git status --porcelain",
                                        "root", NoVersion, status = "clean"))
         /\ CASE status = "fails" ->
                   MainCatch(<<CommandFailedLine("git status --porcelain")>>)
              [] status = "dirty" ->
                   /\ Goto("cargo test")
                   /\ out' = out \o <<ErrLine("Git working directory is not clean"),
                                      ErrLine("Uncommitted changes:")>>
              [] status = "clean" ->
                   /\ Goto("cargo test")
                   /\ out' = out
    /\ UNCHANGED <<env, world>>

checkGitStatus ==
    /\ pc = "checkGitStatus"
    /\ \E status \in {"fails", "clean", "dirty"} :
         /\ trace' = Append(trace, Step("checkGitStatus", "git status --porcelain",
                                        "root", NoVersion, status = "clean"))
         /\ CASE status = "fails" ->
                   MainCatch(<<CommandFailedLine("git status --porcelain")>>)
              [] status = "dirty" ->
                   Exit(<<ErrLine("Git working directory is not clean"),
                          ErrLine("Uncommitted changes:")>>, 1)
              [] status = "clean" ->
                   /\ Goto("cargo test")
                   /\ out' = out
    /\ UNCHANGED <<env, world>>

(***************************************************************************)
(* Step 2: runTests.                                                       *)
(***************************************************************************)
\* mutant: the Rust tests are wrapped like the React Native ones
runTests_ffi_swallow ==
    /\ pc = "cargo test"
    /\ \E ok \in BOOLEAN :
         runCommand_swallow("runTests", "cargo test", "ddk-ffi", NoVersion, ok,
                            "pnpm test rn")
    /\ UNCHANGED <<env, world>>

runTests_ffi ==
    /\ pc = "cargo test"
    /\ \E ok \in BOOLEAN :
         runCommand("runTests", "cargo test", "ddk-ffi", NoVersion, ok, "pnpm test rn")
    /\ UNCHANGED <<env, world>>

\* the React Native tests sit in a try/catch of their own
\* mutant: the React Native tests are run without a catch around them
runTests_rn_fatal ==
    /\ pc = "pnpm test rn"
    /\ \E ok \in BOOLEAN :
         runCommand("runTests", "pnpm test", "ddk-rn", NoVersion, ok, "pnpm test ts")
    /\ UNCHANGED <<env, world>>

runTests_rn ==
    /\ pc = "pnpm test rn"
    /\ \E ok \in BOOLEAN :
         /\ trace' = Append(trace, Step("runTests", "pnpm test", "ddk-rn", NoVersion, ok))
         /\ out' = IF ok THEN out
                   ELSE out \o <<CommandFailedLine("pnpm test"),
                                 Line("No React Native tests found or tests skipped")>>
    /\ Goto("pnpm test ts")
    /\ UNCHANGED <<env, world>>

\* mutant: main goes from the tests straight to the bindings
runTests_ts_thenBindings ==
    /\ pc = "pnpm test ts"
    /\ \E ok \in BOOLEAN :
         runCommand("runTests", "pnpm test", "ddk-ts", NoVersion, ok, "uniffi-jsi")
    /\ UNCHANGED <<env, world>>

\* mutant: the manifests are stamped with the version before the TypeScript
\* tests run
runTests_ts_afterUpdate ==
    /\ pc = "pnpm test ts"
    /\ content' = [p \in Manifests |->
                     IF manifests[p].exists THEN Append(content[p], version) ELSE content[p]]
    /\ manifests' = manifests
    /\ \E ok \in BOOLEAN :
         runCommand("runTests", "pnpm test", "ddk-ts", NoVersion, ok, "updateRustVersions")
    /\ UNCHANGED <<env, others, original, packaged, cppFile, podspecFile, git, release, ghCommands, published, fsys,
                   outputs, artifacts, observed>>

runTests_ts ==
    /\ pc = "pnpm test ts"
    /\ \E ok \in BOOLEAN :
         runCommand("runTests", "pnpm test", "ddk-ts", NoVersion, ok, "updateRustVersions")
    /\ UNCHANGED <<env, world>>

(***************************************************************************)
(* Steps 3 and 4: the manifests.  The text of a manifest is a sequence of  *)
(* tokens, a token being a sequence of characters (a word of the file that *)
(* no operation looks into is taken as one character).                     *)
(***************************************************************************)
Newline == <<"\n">>
Space == <<" ">>
Quote == <<"\"">>
\* the start of the line the expression of updateRustVersions looks for
VersionKey == <<"version = ">>

\* the last position of the line that position i is on, its newline excluded
LineEnd(t, i) ==
    IF \E k \in i..Len(t) : t[k] = Newline
      THEN (CHOOSE k \in i..Len(t) :
               t[k] = Newline /\ \A h \in i..(k - 1) : t[h] # Newline) - 1
      ELSE Len(t)

\* /^version = ".*"/m matches at position i
VersionLineAt(t, i) ==
    /\ i = 1 \/ t[i - 1] = Newline
    /\ i + 2 <= Len(t)
    /\ t[i] = VersionKey
    /\ t[i + 1] = Quote
    /\ \E j \in (i + 2)..LineEnd(t, i) : t[j] = Quote

\* where the match at i ends: .* is greedy, the last quote of the line
MatchEnd(t, i) ==
    CHOOSE j \in (i + 2)..LineEnd(t, i) :
        t[j] = Quote /\ \A h \in (j + 1)..LineEnd(t, i) : t[h] # Quote

\* content.replace(/^version = ".*"/m, `version = "${version}"`): the first match
ReplaceVersion(t, v) ==
    IF \E i \in 1..Len(t) : VersionLineAt(t, i)
      THEN LET i == CHOOSE i \in 1..Len(t) :
                      VersionLineAt(t, i) /\ \A h \in 1..(i - 1) : ~VersionLineAt(t, h)
           IN SubSeq(t, 1, i - 1) \o <<VersionKey, Quote, v, Quote>>
                \o SubSeq(t, MatchEnd(t, i) + 1, Len(t))
      ELSE t

\* the texts after cargoPaths.forEach: each Cargo.toml that exists is rewritten
RECURSIVE RustWrites(_, _, _, _)
RustWrites(c, m, k, v) ==
    IF k > Len(CargoPaths) THEN c
    ELSE RustWrites(IF m[CargoPaths[k]].exists
                      THEN [c EXCEPT ![CargoPaths[k]] = ReplaceVersion(@, v)]
                      ELSE c, m, k + 1, v)

RustSteps(m, v) ==
    SelectSeq([k \in 1..Len(CargoPaths) |->
                  Step("updateRustVersions", "write", CargoPaths[k], v, TRUE)],
              LAMBDA e : m[e.cwd].exists)

(***************************************************************************)
(* package.json: an object of string members, { "key": "value", ... }.     *)
(***************************************************************************)
OpenBrace == <<"{">>
CloseBrace == <<"}">>
Colon == <<":">>
Comma == <<",">>
\* the string literal of s, and the string of a literal
JsonString(s) == Quote \o s \o Quote
Unquote(tok) == SubSeq(tok, 2, Len(tok) - 1)
VersionName == <<"version">>

\* JSON.parse: the members in the order of the text
JsonParse(t) ==
    LET toks == SelectSeq(t, LAMBDA x : x \notin {Space, Newline}) IN
      [k \in 1..((Len(toks) - 1) \div 4) |->
          [key |-> Unquote(toks[4 * k - 2]), value |-> Unquote(toks[4 * k])]]

\* packageJson.version = version: in place if the key is there, else added last
SetVersionMember(obj, v) ==
    IF \E k \in 1..Len(obj) : obj[k].key = VersionName
      THEN [k \in 1..Len(obj) |->
               IF obj[k].key = VersionName THEN [obj[k] EXCEPT !.value = v] ELSE obj[k]]
      ELSE Append(obj, [key |-> VersionName, value |-> v])

\* the members of JSON.stringify(obj, null, 2) from member k on
RECURSIVE StringifyMembers(_, _)
StringifyMembers(obj, k) ==
    IF k > Len(obj) THEN <<>>
    ELSE <<Space, Space, JsonString(obj[k].key), Colon, Space, JsonString(obj[k].value)>>
           \o (IF k < Len(obj) THEN <<Comma, Newline>> ELSE <<>>)
           \o StringifyMembers(obj, k + 1)

\* JSON.stringify(obj, null, 2)
JsonStringify(obj) ==
    IF obj = <<>> THEN <<OpenBrace, CloseBrace>>
    ELSE <<OpenBrace, Newline>> \o StringifyMembers(obj, 1) \o <<Newline, CloseBrace>>

\* the text written back to a package.json
RewritePackageJson(t, v) == JsonStringify(SetVersionMember(JsonParse(t), v)) \o <<Newline>>

\* the index of the first package.json that cannot be read, or 0
FirstMissingPackage(m) ==
    IF \E k \in 1..Len(PackagePaths) : ~m[PackagePaths[k]].exists
      THEN CHOOSE k \in 1..Len(PackagePaths) :
              /\ ~m[PackagePaths[k]].exists
              /\ \A h \in 1..(k - 1) : m[PackagePaths[h]].exists
      ELSE 0

\* the package.json files before index stop (all of them if stop = 0) rewritten
RECURSIVE PackageWrites(_, _, _, _)
PackageWrites(c, k, stop, v) ==
    IF k > Len(PackagePaths) \/ k = stop THEN c
    ELSE PackageWrites([c EXCEPT ![PackagePaths[k]] = RewritePackageJson(@, v)],
                       k + 1, stop, v)

PackageSteps(stop, v) ==
    [k \in 1..(IF stop = 0 THEN Len(PackagePaths) ELSE stop) |->
        Step("updatePackageVersions", "write", PackagePaths[k], v, k # stop)]

(***************************************************************************)
(* The version a manifest declares, as cargo and npm read it: the value of *)
(* the version key of the [package] table of a Cargo.toml, the value of    *)
(* the version member of a package.json.                                   *)
(***************************************************************************)
PackageHeader == <<"[package]">>
TableHeaders ==
    {PackageHeader, <<"[workspace.package]">>, <<"[dependencies]">>, <<"[dependencies.serde]">>}
\* `version = ` and the same key written without spaces
VersionKeys == {VersionKey, <<"version=">>}

\* the position of the value of the version key of [package], or 0
CargoVersionAt(t) ==
    LET at(i) == /\ i + 3 <= Len(t)
                 /\ t[i] \in VersionKeys
                 /\ \E h \in 1..(i - 1) :
                       /\ t[h] = PackageHeader
                       /\ \A g \in (h + 1)..(i - 1) : t[g] \notin TableHeaders \cup VersionKeys
    IN IF \E i \in 1..Len(t) : at(i) THEN (CHOOSE i \in 1..Len(t) : at(i)) + 2 ELSE 0

\* the position of the value of the version member, or 0
JsonVersionAt(t) ==
    LET at(i) == /\ t[i] = JsonString(VersionName)
                 /\ \E j \in (i + 2)..Len(t) :
                       /\ t[j] \notin {Space, Newline}
                       /\ \A g \in (i + 2)..(j - 1) : t[g] \in {Space, Newline}
        val(i) == CHOOSE j \in (i + 2)..Len(t) :
                       /\ t[j] \notin {Space, Newline}
                       /\ \A g \in (i + 2)..(j - 1) : t[g] \in {Space, Newline}
    IN IF \E i \in 1..Len(t) : at(i) THEN val(CHOOSE i \in 1..Len(t) : at(i)) ELSE 0

IsCargo(p) == p \in Range(CargoPaths)

\* the version the manifest at path p declares when its text is t
VersionIn(p, t) ==
    IF IsCargo(p)
      THEN IF CargoVersionAt(t) = 0 THEN NoVersion ELSE t[CargoVersionAt(t)]
      ELSE IF JsonVersionAt(t) = 0 THEN NoVersion ELSE Unquote(t[JsonVersionAt(t)])

\* the manifests as they read once their texts are c
Reread(m, c) ==
    [p \in Manifests |->
        IF m[p].exists THEN [exists |-> TRUE, ver |-> VersionIn(p, c[p])] ELSE m[p]]

updateRustVersions ==
    /\ pc = "updateRustVersions"
    /\ content' = RustWrites(content, manifests, 1, version)
    /\ manifests' = Reread(manifests, content')
    /\ trace' = trace \o RustSteps(manifests, version)
    /\ Goto("updatePackageVersions")
    /\ out' = out
    /\ UNCHANGED <<env, others, original, packaged, cppFile, podspecFile, git, release, ghCommands, published, fsys,
                   outputs, artifacts, observed>>

\* mutant: a package.json that does not exist is skipped, as a Cargo.toml is
updatePackageVersions_skipMissing ==
    /\ pc = "updatePackageVersions"
    /\ content' = [p \in Manifests |->
                     IF ~IsCargo(p) /\ manifests[p].exists
                       THEN RewritePackageJson(content[p], version) ELSE content[p]]
    /\ manifests' = Reread(manifests, content')
    /\ trace' = trace \o SelectSeq(PackageSteps(0, version),
                                    LAMBDA e : manifests[e.cwd].exists)
    /\ Goto("uniffi-jsi")
    /\ out' = out
    /\ UNCHANGED <<env, others, original, packaged, cppFile, podspecFile, git, release, ghCommands, published, fsys,
                   outputs, artifacts, observed>>

\* mutant: a failed update puts every manifest back as it was
updatePackageVersions_rollback ==
    /\ pc = "updatePackageVersions"
    /\ LET stop == FirstMissingPackage(manifests) IN
         /\ content' = IF stop = 0 THEN PackageWrites(content, 1, stop, version)
                                   ELSE original
         /\ manifests' = Reread(manifests, content')
         /\ trace' = trace \o PackageSteps(stop, version)
         /\ IF stop = 0
              THEN /\ Goto("uniffi-jsi")
                   /\ out' = out
              ELSE MainCatch(<<>>)
    /\ UNCHANGED <<env, others, original, packaged, cppFile, podspecFile, git, release, ghCommands, published, fsys,
                   outputs, artifacts, observed>>

\* readFileSync throws on a package.json that does not exist
updatePackageVersions ==
    /\ pc = "updatePackageVersions"
    /\ LET stop == FirstMissingPackage(manifests) IN
         /\ content' = PackageWrites(content, 1, stop, version)
         /\ manifests' = Reread(manifests, content')
         /\ trace' = trace \o PackageSteps(stop, version)
         /\ IF stop = 0
              THEN /\ Goto("uniffi-jsi")
                   /\ out' = out
              ELSE MainCatch(<<>>)
    /\ UNCHANGED <<env, others, original, packaged, cppFile, podspecFile, git, release, ghCommands, published, fsys,
                   outputs, artifacts, observed>>

(***************************************************************************)
(* Step 5: generateReactNativeBindings.                                    *)
(***************************************************************************)
generateReactNativeBindings_jsi ==
    /\ pc = "uniffi-jsi"
    /\ \E ok \in BOOLEAN :
         runCommand("generateReactNativeBindings", "just uniffi-jsi", "root",
                    NoVersion, ok, "uniffi-turbo")
    /\ UNCHANGED <<env, world>>

\* The text of the C++ file: the opening of an include directive up to its
\* quote, a slash, the header name with its closing quote, and anything else
IncludeOpen == "#include \""
Slash == "/"
HeaderClose == "ddk_ffi.hpp\""
OtherText == "x"
\* '#include "/ddk_ffi.hpp"' and '#include "ddk_ffi.hpp"'
DefectiveInclude == <<IncludeOpen, Slash, HeaderClose>>
FixedInclude == <<IncludeOpen, HeaderClose>>

\* what the generator writes: the include as it should be, or the defective one
GeneratedCpp == {FixedInclude \o <<OtherText>>, DefectiveInclude \o <<OtherText>>}

\* the turbo-module generator writes cpp/bennyblader-ddk-rn.cpp, with or
\* without the defective include, and removes xcconfig from the podspec
\* (the podspec of the checkout has its vendored_frameworks line)
generateReactNativeBindings_turbo ==
    /\ pc = "uniffi-turbo"
    /\ \E ok \in BOOLEAN :
         /\ runCommand("generateReactNativeBindings", "just uniffi-turbo", "root",
                       NoVersion, ok, "build-ios")
         /\ IF ok
              THEN /\ \E g \in GeneratedCpp : cppFile' = [exists |-> TRUE, text |-> g]
                   /\ podspecFile' = IF podspecFile = "ok" THEN "stripped"
                                     ELSE podspecFile
              ELSE UNCHANGED <<cppFile, podspecFile>>
    /\ UNCHANGED <<env, others, files, manifests, git, release, ghCommands, published, fsys, outputs,
                   artifacts, observed>>

\* mutant: the iOS build is run on every platform
generateReactNativeBindings_ios_always ==
    /\ pc = "build-ios"
    /\ \E ok \in BOOLEAN :
         runCommand("generateReactNativeBindings", "just build-ios", "root",
                    NoVersion, ok, "build-android")
    /\ UNCHANGED <<env, world>>

generateReactNativeBindings_ios ==
    /\ pc = "build-ios"
    /\ IF darwin
         THEN \E ok \in BOOLEAN :
                 runCommand("generateReactNativeBindings", "just build-ios", "root",
                            NoVersion, ok, "build-android")
         ELSE /\ Goto("build-android")
              /\ out' = Append(out, Line("Skipping iOS build (not on macOS)"))
              /\ trace' = trace
    /\ UNCHANGED <<env, world>>

\* mutant: the Android build is run without a catch around it
generateReactNativeBindings_android_fatal ==
    /\ pc = "build-android"
    /\ IF ndk
         THEN \E ok \in BOOLEAN :
                 runCommand("generateReactNativeBindings", "just build-android", "root",
                            NoVersion, ok, "applyHotFix")
         ELSE /\ Goto("applyHotFix")
              /\ out' = Append(out, Line("Skipping Android build (NDK not configured)"))
              /\ trace' = trace
    /\ UNCHANGED <<env, world>>

\* mutant: main goes on to the TypeScript bindings without applyHotFix()
generateReactNativeBindings_android_noFix ==
    /\ pc = "build-android"
    /\ IF ndk
         THEN \E ok \in BOOLEAN :
                 /\ trace' = Append(trace, Step("generateReactNativeBindings",
                                                "just build-android", "root", NoVersion, ok))
                 /\ out' = IF ok THEN out
                           ELSE out \o <<CommandFailedLine("just build-android"),
                                         Line("Android build failed (may be missing toolchain)")>>
         ELSE /\ out' = Append(out, Line("Skipping Android build (NDK not configured)"))
              /\ trace' = trace
    /\ Goto("build:darwin-arm64")
    /\ UNCHANGED <<env, world>>

\* the Android build sits in a try/catch of its own
generateReactNativeBindings_android ==
    /\ pc = "build-android"
    /\ IF ndk
         THEN \E ok \in BOOLEAN :
                 /\ trace' = Append(trace, Step("generateReactNativeBindings",
                                                "just build-android", "root", NoVersion, ok))
                 /\ out' = IF ok THEN out
                           ELSE out \o <<CommandFailedLine("just build-android"),
                                         Line("Android build failed (may be missing toolchain)")>>
         ELSE /\ out' = Append(out, Line("Skipping Android build (NDK not configured)"))
              /\ trace' = trace
    /\ Goto("applyHotFix")
    /\ UNCHANGED <<env, world>>

(***************************************************************************)
(* Step 6: applyHotFix, of ddk-rn/scripts/apply-hotfix.js.                 *)
(***************************************************************************)
\* String.prototype.includes(pattern)
StringIncludes(s, pattern) ==
    \E i \in 1..(Len(s) - Len(pattern) + 1) : SubSeq(s, i, i + Len(pattern) - 1) = pattern

\* String.prototype.replace(pattern, replacement) with a string pattern: the
\* first occurrence is replaced
StringReplace(s, pattern, replacement) ==
    IF StringIncludes(s, pattern)
      THEN LET i == CHOOSE i \in 1..(Len(s) - Len(pattern) + 1) :
                      /\ SubSeq(s, i, i + Len(pattern) - 1) = pattern
                      /\ \A h \in 1..(i - 1) : SubSeq(s, h, h + Len(pattern) - 1) # pattern
           IN SubSeq(s, 1, i - 1) \o replacement \o SubSeq(s, i + Len(pattern), Len(s))
      ELSE s

\* Fix 1: the defective include is replaced if the file has it
FixInclude(f) ==
    IF f.exists /\ StringIncludes(f.text, DefectiveInclude)
      THEN [f EXCEPT !.text = StringReplace(@, DefectiveInclude, FixedInclude)]
      ELSE f

\* Fix 2: xcconfig is added back after the vendored_frameworks line
FixPodspec(p) == IF p = "stripped" THEN "ok" ELSE p

HotFixLines(p) ==
    IF p = "noanchor"
      THEN Append(out, Line("Could not find vendored_frameworks line in podspec"))
      ELSE out

applyHotFix ==
    /\ pc = "applyHotFix"
    /\ cppFile' = FixInclude(cppFile)
    /\ podspecFile' = FixPodspec(podspecFile)
    /\ trace' = Append(trace, Step("applyHotFix", "patch", "ddk-rn", NoVersion, TRUE))
    /\ out' = HotFixLines(podspecFile)
    /\ Goto("build:darwin-arm64")
    /\ UNCHANGED <<env, others, files, manifests, git, release, ghCommands, published, fsys, outputs,
                   artifacts, observed>>

(***************************************************************************)
(* Step 7: generateTypeScriptBindings.                                     *)
(***************************************************************************)
generateTypeScriptBindings_darwin ==
    /\ pc = "build:darwin-arm64"
    /\ IF darwin
         THEN \E ok \in BOOLEAN :
                 runCommand("generateTypeScriptBindings", "pnpm build:darwin-arm64",
                            "ddk-ts", NoVersion, ok, "build:linux-x64")
         ELSE /\ Goto("pnpm build")
              /\ UNCHANGED <<out, trace>>
    /\ UNCHANGED <<env, world>>

generateTypeScriptBindings_linux ==
    /\ pc = "build:linux-x64"
    /\ \E ok \in BOOLEAN :
         runCommand("generateTypeScriptBindings", "pnpm build:linux-x64", "ddk-ts",
                    NoVersion, ok, "pnpm build")
    /\ UNCHANGED <<env, world>>

generateTypeScriptBindings_build ==
    /\ pc = "pnpm build"
    /\ \E ok \in BOOLEAN :
         runCommand("generateTypeScriptBindings", "pnpm build", "ddk-ts", NoVersion,
                    ok, "pnpm prepublish")
    /\ UNCHANGED <<env, world>>

generateTypeScriptBindings_prepublish ==
    /\ pc = "pnpm prepublish"
    /\ \E ok \in BOOLEAN :
         runCommand("generateTypeScriptBindings", "pnpm prepublish", "ddk-ts",
                    NoVersion, ok, "prepareRustSource")
    /\ UNCHANGED <<env, world>>

(***************************************************************************)
(* Steps 8 and 9: prepareRustSource, buildReactNativePackage.              *)
(***************************************************************************)
prepareRustSource ==
    /\ pc = "prepareRustSource"
    /\ \E ok \in BOOLEAN :
         runCommand("prepareRustSource", "node scripts/prepare-rust-src.js", "ddk-rn",
                    NoVersion, ok, "buildReactNativePackage")
    /\ UNCHANGED <<env, world>>

buildReactNativePackage ==
    /\ pc = "buildReactNativePackage"
    /\ \E ok \in BOOLEAN :
         runCommand("buildReactNativePackage", "pnpm prepare", "ddk-rn", NoVersion,
                    ok, "createReleaseArtifacts")
    /\ UNCHANGED <<env, world>>

(***************************************************************************)
(* Step 10: createReleaseArtifacts.  A file name is the sequence of its    *)
(* parts between "." and "-"; an artifact in release-archives is the       *)
(* record of the parts of its name {kind}-{platform}-{version}.{ext}.      *)
(***************************************************************************)
Artifact(kind, platform, ver, ext) ==
    [kind |-> kind, platform |-> platform, ver |-> ver, ext |-> ext]

iosArchive(v) == Artifact("react-native", "ios-xcframeworks", v, "tar.gz")
androidArchive(v) == Artifact("react-native", "android-jni", v, "tar.gz")

\* f.endsWith(".node")
EndsWithNode(f) == Len(f) > 1 /\ f[Len(f)] = "node"
\* f.includes(word)
Includes(f, word) == \E k \in 1..Len(f) : f[k] = word

\* the platform a .node file is filed under
NodePlatform(f) ==
    IF Includes(f, "darwin") THEN "darwin-arm64"
    ELSE IF Includes(f, "linux") THEN "linux-x64"
    ELSE "unknown"

\* mutant: the artifact name without the version, typescript-${platform}.node
NodeArtifact_noVersion(f, v) == Artifact("typescript", NodePlatform(f), NoVersion, "node")

\* typescript-${platform}-${version}.node
NodeArtifact(f, v) == Artifact("typescript", NodePlatform(f), v, "node")

\* the listings of ddk-ts/dist that are tried
DistListings ==
    {<<>>,
     <<<<"ddk", "ts", "darwin", "arm64", "node">>,
       <<"ddk", "ts", "linux", "x64", "gnu", "node">>>>,
     <<<<"ddk", "ts", "darwin", "arm64", "node">>,
       <<"ddk", "ts", "darwin", "x64", "node">>>>,
     <<<<"ddk", "ts", "win32", "x64", "msvc", "node">>, <<"index", "js">>>>}

\* what createReleaseArtifacts can find on disk
OutputStates ==
    [probed : {TRUE}, iosDir : BOOLEAN, frameworks : 0..MaxFrameworks,
     jniLibs : BOOLEAN, dist : BOOLEAN, listing : DistListings]

\* a directory that does not exist holds nothing
WellFormedOutputs(o) ==
    /\ ~o.iosDir => o.frameworks = 0
    /\ ~o.dist => o.listing = <<>>

NoOutputs ==
    [probed |-> FALSE, iosDir |-> FALSE, frameworks |-> 0, jniLibs |-> FALSE,
     dist |-> FALSE, listing |-> <<>>]

\* ensureDir(archiveDir), then the iOS branch up to ensureDir(tempDir)
\* mutant: the lists are not emptied at the start of a call
createReleaseArtifacts_begin_keepLists ==
    /\ pc = "createReleaseArtifacts"
    /\ \E o \in OutputStates :
         /\ WellFormedOutputs(o)
         /\ outputs' = o
         /\ fsys' = [fsys EXCEPT !.archiveDir = TRUE,
                                 !.tempDir = (o.iosDir /\ o.frameworks > 0)]
         /\ Goto(IF o.iosDir /\ o.frameworks > 0 THEN "pack-ios-cp" ELSE "pack-android")
    /\ trace' = Append(trace, Step("createReleaseArtifacts", "ensureDir",
                                   "release-archives", NoVersion, TRUE))
    /\ out' = out
    /\ UNCHANGED <<env, others, files, manifests, cppFile, podspecFile, git, release, ghCommands, published,
                   artifacts, observed>>

createReleaseArtifacts_begin ==
    /\ pc = "createReleaseArtifacts"
    /\ \E o \in OutputStates :
         /\ WellFormedOutputs(o)
         /\ outputs' = o
         /\ fsys' = [fsys EXCEPT !.archiveDir = TRUE,
                                 !.tempDir = (o.iosDir /\ o.frameworks > 0)]
         /\ Goto(IF o.iosDir /\ o.frameworks > 0 THEN "pack-ios-cp" ELSE "pack-android")
    /\ trace' = Append(trace, Step("createReleaseArtifacts", "ensureDir",
                                   "release-archives", NoVersion, TRUE))
    /\ out' = out
    /\ artifacts' = [rnArtifacts |-> <<>>, tsArtifacts |-> <<>>]
    /\ UNCHANGED <<env, others, files, manifests, cppFile, podspecFile, git, release, ghCommands, published,
                   observed>>

\* mutant: a copy that failed is tried a second time
createReleaseArtifacts_iosCopy_retry ==
    /\ pc = "pack-ios-cp"
    /\ \E ok \in BOOLEAN :
         /\ IF ok \/ \E j \in 1..Len(trace) : trace[j].cmd = "cp -R" /\ ~trace[j].ok
              THEN runCommand("createReleaseArtifacts", "cp -R", "root", NoVersion, ok,
                              IF fsys.copied + 1 = outputs.frameworks
                                THEN "pack-ios-tar" ELSE "pack-ios-cp")
              ELSE /\ trace' = Append(trace, Step("createReleaseArtifacts", "cp -R",
                                                  "root", NoVersion, FALSE))
                   /\ out' = Append(out, CommandFailedLine("cp -R"))
                   /\ Goto("pack-ios-cp")
         /\ fsys' = IF ok THEN [fsys EXCEPT !.copied = @ + 1] ELSE fsys
    /\ UNCHANGED <<env, others, files, manifests, cppFile, podspecFile, git, release, ghCommands, published,
                   outputs, artifacts, observed>>

\* xcframeworks.forEach: cp -R one framework into temp-ios
createReleaseArtifacts_iosCopy ==
    /\ pc = "pack-ios-cp"
    /\ \E ok \in BOOLEAN :
         /\ runCommand("createReleaseArtifacts", "cp -R", "root", NoVersion, ok,
                       IF fsys.copied + 1 = outputs.frameworks
                         THEN "pack-ios-tar" ELSE "pack-ios-cp")
         /\ fsys' = IF ok THEN [fsys EXCEPT !.copied = @ + 1] ELSE fsys
    /\ UNCHANGED <<env, others, files, manifests, cppFile, podspecFile, git, release, ghCommands, published,
                   outputs, artifacts, observed>>

createReleaseArtifacts_iosTar ==
    /\ pc = "pack-ios-tar"
    /\ \E ok \in BOOLEAN :
         /\ runCommand("createReleaseArtifacts", "tar -czf ios", "root", version, ok,
                       "pack-ios-rm")
         /\ fsys' = IF ok THEN [fsys EXCEPT !.files = @ \cup {iosArchive(version)}]
                    ELSE fsys
    /\ UNCHANGED <<env, others, files, manifests, cppFile, podspecFile, git, release, ghCommands, published,
                   outputs, artifacts, observed>>

createReleaseArtifacts_iosRm ==
    /\ pc = "pack-ios-rm"
    /\ \E ok \in BOOLEAN :
         /\ runCommand("createReleaseArtifacts", "rm -rf temp-ios", "root", NoVersion,
                       ok, "pack-android")
         /\ IF ok
              THEN /\ fsys' = [fsys EXCEPT !.tempDir = FALSE, !.copied = 0]
                   /\ artifacts' = [artifacts EXCEPT
                                      !.rnArtifacts = Append(@, iosArchive(version))]
              ELSE UNCHANGED <<fsys, artifacts>>
    /\ UNCHANGED <<env, others, files, manifests, cppFile, podspecFile, git, release, ghCommands, published,
                   outputs, observed>>

\* mutant: a missing jniLibs directory is an error
createReleaseArtifacts_android_required ==
    /\ pc = "pack-android"
    /\ IF outputs.jniLibs
         THEN \E ok \in BOOLEAN :
                 /\ runCommand("createReleaseArtifacts", "tar -czf android", "root",
                               version, ok, "pack-ts")
                 /\ IF ok
                      THEN /\ fsys' = [fsys EXCEPT
                                         !.files = @ \cup {androidArchive(version)}]
                           /\ artifacts' = [artifacts EXCEPT
                                !.rnArtifacts = Append(@, androidArchive(version))]
                      ELSE UNCHANGED <<fsys, artifacts>>
         ELSE /\ MainCatch(<<>>)
              /\ UNCHANGED <<trace, fsys, artifacts>>
    /\ UNCHANGED <<env, others, files, manifests, cppFile, podspecFile, git, release, ghCommands, published,
                   outputs, observed>>

createReleaseArtifacts_android ==
    /\ pc = "pack-android"
    /\ IF outputs.jniLibs
         THEN \E ok \in BOOLEAN :
                 /\ runCommand("createReleaseArtifacts", "tar -czf android", "root",
                               version, ok, "pack-ts")
                 /\ IF ok
                      THEN /\ fsys' = [fsys EXCEPT
                                         !.files = @ \cup {androidArchive(version)}]
                           /\ artifacts' = [artifacts EXCEPT
                                !.rnArtifacts = Append(@, androidArchive(version))]
                      ELSE UNCHANGED <<fsys, artifacts>>
         ELSE /\ Goto("pack-ts")
              /\ UNCHANGED <<out, trace, fsys, artifacts>>
    /\ UNCHANGED <<env, others, files, manifests, cppFile, podspecFile, git, release, ghCommands, published,
                   outputs, observed>>

\* nodeFiles.forEach: copy each .node file of dist under its artifact name
nodeFiles(listing) == SelectSeq(listing, EndsWithNode)

tsArtifactsOf(listing, v) ==
    [k \in 1..Len(nodeFiles(listing)) |-> NodeArtifact(nodeFiles(listing)[k], v)]

createReleaseArtifacts_ts ==
    /\ pc = "pack-ts"
    /\ LET made == IF outputs.dist THEN tsArtifactsOf(outputs.listing, version)
                   ELSE <<>> IN
         /\ artifacts' = [artifacts EXCEPT !.tsArtifacts = made]
         /\ fsys' = [fsys EXCEPT !.files = @ \cup Range(made)]
         /\ trace' = trace \o [k \in 1..Len(made) |->
                                  Step("createReleaseArtifacts", "copyFile",
                                       "release-archives", version, TRUE)]
         /\ packaged' = Append(packaged,
                                [found |-> outputs,
                                 returned |-> [artifacts EXCEPT !.tsArtifacts = made],
                                 archiveDir |-> fsys.files \cup Range(made)])
    /\ Goto("git add")
    /\ out' = out
    /\ UNCHANGED <<env, others, content, original, manifests, cppFile, podspecFile, git, release, ghCommands,
                   published, outputs, observed>>

(***************************************************************************)
(* Steps 11 to 13: commitChanges, createTag, pushToGitHub.                 *)
(***************************************************************************)
commitChanges_add ==
    /\ pc = "git add"
    /\ \E ok \in BOOLEAN :
         /\ runCommand("commitChanges", "git add .", "root", NoVersion, ok, "git commit")
         /\ git' = IF ok THEN [git EXCEPT !.staged = TRUE] ELSE git
    /\ UNCHANGED <<env, others, files, manifests, cppFile, podspecFile, release, ghCommands, published, fsys,
                   outputs, artifacts, observed>>

commitChanges_commit ==
    /\ pc = "git commit"
    /\ \E ok \in BOOLEAN :
         /\ runCommand("commitChanges", "git commit", "root", version, ok, "git tag")
         /\ git' = IF ok THEN [git EXCEPT !.staged = FALSE, !.commit = TRUE] ELSE git
    /\ UNCHANGED <<env, others, files, manifests, cppFile, podspecFile, release, ghCommands, published, fsys,
                   outputs, artifacts, observed>>

\* mutant: the tag is named after the version that ddk-ffi/Cargo.toml declares
createTag_fromManifest ==
    /\ pc = "git tag"
    /\ \E ok \in BOOLEAN :
         /\ runCommand("createTag", "git tag -a", "root",
                       manifests["ddk-ffi/Cargo.toml"].ver, ok, "push branch")
         /\ git' = IF ok THEN [git EXCEPT !.tag = TRUE] ELSE git
    /\ UNCHANGED <<env, others, files, manifests, cppFile, podspecFile, release, ghCommands, published, fsys,
                   outputs, artifacts, observed>>

createTag ==
    /\ pc = "git tag"
    /\ \E ok \in BOOLEAN :
         /\ runCommand("createTag", "git tag -a", "root", version, ok, "push branch")
         /\ git' = IF ok THEN [git EXCEPT !.tag = TRUE] ELSE git
    /\ UNCHANGED <<env, others, files, manifests, cppFile, podspecFile, release, ghCommands, published, fsys,
                   outputs, artifacts, observed>>

\* mutant: the branch is pushed with its tags, git push --follow-tags
pushToGitHub_branch_followTags ==
    /\ pc = "push branch"
    /\ \E ok \in BOOLEAN :
         /\ runCommand("pushToGitHub", "git push origin master", "root", NoVersion,
                       ok, "push tag")
         /\ git' = IF ok THEN [git EXCEPT !.remoteBranch = TRUE, !.remoteTag = git.tag]
                   ELSE git
    /\ UNCHANGED <<env, others, files, manifests, cppFile, podspecFile, release, ghCommands, published, fsys,
                   outputs, artifacts, observed>>

pushToGitHub_branch ==
    /\ pc = "push branch"
    /\ \E ok \in BOOLEAN :
         /\ runCommand("pushToGitHub", "git push origin master", "root", NoVersion,
                       ok, "push tag")
         /\ git' = IF ok THEN [git EXCEPT !.remoteBranch = TRUE] ELSE git
    /\ UNCHANGED <<env, others, files, manifests, cppFile, podspecFile, release, ghCommands, published, fsys,
                   outputs, artifacts, observed>>

\* mutant: a failed tag push is not noticed
pushToGitHub_tag_swallow ==
    /\ pc = "push tag"
    /\ \E ok \in BOOLEAN :
         /\ runCommand_swallow("pushToGitHub", "git push origin v", "root", version,
                               ok, "gh release")
         /\ git' = IF ok THEN [git EXCEPT !.remoteTag = TRUE] ELSE git
    /\ UNCHANGED <<env, others, files, manifests, cppFile, podspecFile, release, ghCommands, published, fsys,
                   outputs, artifacts, observed>>

pushToGitHub_tag ==
    /\ pc = "push tag"
    /\ \E ok \in BOOLEAN :
         /\ runCommand("pushToGitHub", "git push origin v", "root", version, ok,
                       "gh release")
         /\ git' = IF ok THEN [git EXCEPT !.remoteTag = TRUE] ELSE git
    /\ UNCHANGED <<env, others, files, manifests, cppFile, podspecFile, release, ghCommands, published, fsys,
                   outputs, artifacts, observed>>

(***************************************************************************)
(* Step 14: createGitHubRelease.  The notes file is written, the release   *)
(* is created, and the notes file is removed if the command returned.      *)
(***************************************************************************)
\* the characters of the extension of an artifact
ExtChars(ext) ==
    IF ext = "tar.gz" THEN <<"t", "a", "r", ".", "g", "z">> ELSE <<"n", "o", "d", "e">>

\* path.basename(artifact): {kind}-{platform}-{version}.{ext}
Basename(a) == <<a.kind, "-", a.platform, "-">> \o a.ver \o <<".">> \o ExtChars(a.ext)

\* filename.replace(".tar.gz", "").replace(`-${version}`, "")
RnLabel(a, v) ==
    StringReplace(StringReplace(Basename(a), <<".">> \o ExtChars("tar.gz"), <<>>),
                  <<"-">> \o v, <<>>)

\* filename.replace(".node", "").replace(`-${version}`, "")
TsLabel(a, v) ==
    StringReplace(StringReplace(Basename(a), <<".">> \o ExtChars("node"), <<>>),
                  <<"-">> \o v, <<>>)

\* one argument "${artifact}#${label}" of the command
Asset(a, label) == [file |-> a, label |-> label]

\* ghCommand: the tag, the title and one argument for each artifact, the
\* React Native ones first
GhCommand(v, a) ==
    [tag |-> <<"v">> \o v,
     title |-> <<"v">> \o v,
     assets |-> [k \in 1..Len(a.rnArtifacts) |->
                   Asset(a.rnArtifacts[k], RnLabel(a.rnArtifacts[k], v))]
                \o [k \in 1..Len(a.tsArtifacts) |->
                      Asset(a.tsArtifacts[k], TsLabel(a.tsArtifacts[k], v))]]

\* mutant: a failed release creation deletes the tag, locally and on the remote
createGitHubRelease_deleteTag ==
    /\ pc = "gh release"
    /\ \E ok \in BOOLEAN :
         /\ runCommand("createGitHubRelease", "gh release create v", "root", version,
                       ok, "npm whoami")
         /\ release' = IF ok THEN release \cup {version} ELSE release
         /\ ghCommands' = Append(ghCommands, GhCommand(version, artifacts))
         /\ fsys' = [fsys EXCEPT !.notes = ~ok]
         /\ git' = IF ok THEN git ELSE [git EXCEPT !.tag = FALSE, !.remoteTag = FALSE]
    /\ UNCHANGED <<env, others, files, manifests, cppFile, podspecFile, published, outputs,
                   artifacts, observed>>

createGitHubRelease ==
    /\ pc = "gh release"
    /\ \E ok \in BOOLEAN :
         /\ runCommand("createGitHubRelease", "gh release create v", "root", version,
                       ok, "npm whoami")
         /\ release' = IF ok THEN release \cup {version} ELSE release
         /\ ghCommands' = Append(ghCommands, GhCommand(version, artifacts))
         /\ fsys' = [fsys EXCEPT !.notes = ~ok]
    /\ UNCHANGED <<env, others, files, manifests, cppFile, podspecFile, git, published, outputs,
                   artifacts, observed>>

(***************************************************************************)
(* Step 15: publishNpmPackages.                                            *)
(***************************************************************************)
RnPackage == "@bennyblader/ddk-rn"
TsPackage == "@bennyblader/ddk-ts"

\* the authentication check has a catch of its own, which exits
\* mutant: a failed authentication check is logged and the packages are published
publishNpmPackages_whoami_warn ==
    /\ pc = "npm whoami"
    /\ \E ok \in BOOLEAN :
         /\ trace' = Append(trace, Step("publishNpmPackages", "npm whoami", "root",
                                        NoVersion, ok))
         /\ Goto("publish rn")
         /\ out' = IF ok THEN out
                   ELSE out \o <<CommandFailedLine("npm whoami"),
                      ErrLine("You are not authenticated with npm. Please run: npm login")>>
    /\ UNCHANGED <<env, world>>

publishNpmPackages_whoami ==
    /\ pc = "npm whoami"
    /\ \E ok \in BOOLEAN :
         /\ trace' = Append(trace, Step("publishNpmPackages", "npm whoami", "root",
                                        NoVersion, ok))
         /\ IF ok
              THEN /\ Goto("publish rn")
                   /\ out' = out
              ELSE Exit(<<CommandFailedLine("npm whoami"),
                          ErrLine("You are not authenticated with npm. Please run: npm login")>>,
                        1)
    /\ UNCHANGED <<env, world>>

publishNpmPackages_rn ==
    /\ pc = "publish rn"
    /\ \E ok \in BOOLEAN :
         /\ runCommand("publishNpmPackages", "npm publish --access public", "ddk-rn",
                       NoVersion, ok, "publish ts")
         /\ published' = IF ok THEN published \cup {RnPackage} ELSE published
    /\ UNCHANGED <<env, others, files, manifests, cppFile, podspecFile, git, release, ghCommands, fsys, outputs,
                   artifacts, observed>>

\* mutant: when ddk-ts cannot be published, ddk-rn is unpublished
publishNpmPackages_ts_unpublish ==
    /\ pc = "publish ts"
    /\ \E ok \in BOOLEAN :
         /\ runCommand("publishNpmPackages", "npm publish --access public", "ddk-ts",
                       NoVersion, ok, "wait")
         /\ published' = IF ok THEN published \cup {TsPackage} ELSE {}
    /\ UNCHANGED <<env, others, files, manifests, cppFile, podspecFile, git, release, ghCommands, fsys, outputs,
                   artifacts, observed>>

publishNpmPackages_ts ==
    /\ pc = "publish ts"
    /\ \E ok \in BOOLEAN :
         /\ runCommand("publishNpmPackages", "npm publish --access public", "ddk-ts",
                       NoVersion, ok, "wait")
         /\ published' = IF ok THEN published \cup {TsPackage} ELSE published
    /\ UNCHANGED <<env, others, files, manifests, cppFile, podspecFile, git, release, ghCommands, fsys, outputs,
                   artifacts, observed>>

\* await new Promise((resolve) => setTimeout(resolve, 3000))
publishNpmPackages_wait ==
    /\ pc = "wait"
    /\ Goto("view rn")
    /\ UNCHANGED <<env, out, trace, world>>

\* what the registry can answer: the release version or the one before,
\* followed by a newline
RegistryAnswers == {version \o <<"\n">>, OldVersion \o <<"\n">>}

Whitespace == {" ", "\n", "\t"}

\* String.prototype.trim
RECURSIVE Trim(_)
Trim(s) ==
    IF s = <<>> THEN s
    ELSE IF Head(s) \in Whitespace THEN Trim(Tail(s))
    ELSE IF s[Len(s)] \in Whitespace THEN Trim(SubSeq(s, 1, Len(s) - 1))
    ELSE s

CouldNotVerify == ErrLine("Could not verify published versions (registry may be updating)")

\* mutant: the first query is outside the try/catch
publishNpmPackages_viewRn_fatal ==
    /\ pc = "view rn"
    /\ \E ok \in BOOLEAN :
         /\ runCommand("publishNpmPackages", "npm view version", RnPackage, NoVersion,
                       ok, "view ts")
         /\ IF ok
              THEN \E answer \in RegistryAnswers :
                      observed' = [observed EXCEPT !.rn = Trim(answer)]
              ELSE observed' = observed
    /\ UNCHANGED <<env, others, files, manifests, cppFile, podspecFile, git, release, ghCommands, published,
                   fsys, outputs, artifacts>>

\* the two queries sit in one try/catch: a failure only warns
publishNpmPackages_viewRn ==
    /\ pc = "view rn"
    /\ \E ok \in BOOLEAN :
         /\ trace' = Append(trace, Step("publishNpmPackages", "npm view version",
                                        RnPackage, NoVersion, ok))
         /\ IF ok
              THEN /\ \E answer \in RegistryAnswers :
                        observed' = [observed EXCEPT !.rn = Trim(answer)]
                   /\ Goto("view ts")
                   /\ out' = out
              ELSE /\ observed' = observed
                   /\ Goto("success")
                   /\ out' = out \o <<CommandFailedLine("npm view version"), CouldNotVerify>>
    /\ UNCHANGED <<env, others, files, manifests, cppFile, podspecFile, git, release, ghCommands, published,
                   fsys, outputs, artifacts>>

\* the lines printed once both versions are known
VerifyLines(rnVersion, tsVersion, v) ==
    IF rnVersion = v /\ tsVersion = v
      THEN <<Line("Both packages published successfully")>>
      ELSE <<ErrLine("Version mismatch detected"),
             [ErrLine("ddk-rn:") EXCEPT !.rn = rnVersion],
             [ErrLine("ddk-ts:") EXCEPT !.ts = tsVersion]>>

publishNpmPackages_viewTs ==
    /\ pc = "view ts"
    /\ \E ok \in BOOLEAN :
         /\ trace' = Append(trace, Step("publishNpmPackages", "npm view version",
                                        TsPackage, NoVersion, ok))
         /\ IF ok
              THEN \E answer \in RegistryAnswers :
                      /\ observed' = [observed EXCEPT !.ts = Trim(answer)]
                      /\ out' = out \o VerifyLines(observed.rn, Trim(answer), version)
              ELSE /\ observed' = observed
                   /\ out' = out \o <<CommandFailedLine("npm view version"), CouldNotVerify>>
    /\ Goto("success")
    /\ UNCHANGED <<env, others, files, manifests, cppFile, podspecFile, git, release, ghCommands, published,
                   fsys, outputs, artifacts>>

\* mutant: main removes release-archives before it returns
main_success_cleanup ==
    /\ pc = "success"
    /\ Exit(<<Line("Release completed successfully!")>>, 0)
    /\ fsys' = [fsys EXCEPT !.archiveDir = FALSE, !.files = {}]
    /\ UNCHANGED <<env, others, trace, files, manifests, cppFile, podspecFile, git, release, ghCommands,
                   published, outputs, artifacts, observed>>

\* the end of main: the success lines, and the process ends with code 0
main_success ==
    /\ pc = "success"
    /\ Exit(<<Line("Release completed successfully!")>>, 0)
    /\ UNCHANGED <<env, trace, world>>

(***************************************************************************)
(* The initial state and the next-state relation.                          *)
(***************************************************************************)
(***************************************************************************)
(* The manifests a checkout can hold.                                      *)
(***************************************************************************)
TextLine(toks) == Append(toks, Newline)
V010 == <<"0", ".", "1", ".", "0">>
V118 == <<"1", ".", "1", ".", "8">>
V10 == <<"1", ".", "0">>

\* what stands before [package], the version line of [package], what follows
CargoPreambles ==
    {<<>>,
     TextLine(<<<<"[workspace.package]">>>>) \o TextLine(<<VersionKey, Quote, V010, Quote>>)}
CargoVersionLines ==
    {TextLine(<<VersionKey, Quote, OldVersion, Quote>>),
     TextLine(<<VersionKey, Quote, OldVersion, Quote, <<" # was ">>, Quote, V118, Quote>>),
     TextLine(<<<<"version=">>, Quote, OldVersion, Quote>>)}
CargoTails ==
    {<<>>,
     TextLine(<<<<"[dependencies.serde]">>>>) \o TextLine(<<VersionKey, Quote, V10, Quote>>)}

CargoText(pre, ver, tail) ==
    pre \o TextLine(<<PackageHeader>>)
        \o TextLine(<<<<"name = ">>, Quote, <<"ddk-ffi">>, Quote>>) \o ver \o tail
CargoTexts ==
    {CargoText(pre, ver, tail) :
        pre \in CargoPreambles, ver \in CargoVersionLines, tail \in CargoTails}

\* a package.json laid out with n spaces of indentation, with or without a
\* final newline
RECURSIVE LayoutMembers(_, _, _)
LayoutMembers(obj, k, n) ==
    IF k > Len(obj) THEN <<>>
    ELSE [i \in 1..n |-> Space]
           \o <<JsonString(obj[k].key), Colon, Space, JsonString(obj[k].value)>>
           \o (IF k < Len(obj) THEN <<Comma, Newline>> ELSE <<>>)
           \o LayoutMembers(obj, k + 1, n)
Layout(obj, n, nl) ==
    <<OpenBrace, Newline>> \o LayoutMembers(obj, 1, n) \o <<Newline, CloseBrace>>
        \o (IF nl THEN <<Newline>> ELSE <<>>)

NameMember == [key |-> <<"name">>, value |-> <<"ddk">>]
VersionMember == [key |-> VersionName, value |-> OldVersion]
MainMember == [key |-> <<"main">>, value |-> <<"index.js">>]
PackageObjects ==
    {<<NameMember, VersionMember, MainMember>>, <<VersionMember, NameMember>>,
     <<NameMember, MainMember, VersionMember>>}
IndentWidths == {2, 4}
PackageTexts ==
    {Layout(obj, n, nl) : obj \in PackageObjects, n \in IndentWidths, nl \in BOOLEAN}

\* the manifests as cargo new and npm init lay them out
PlainCargo == CargoText(<<>>, TextLine(<<VersionKey, Quote, OldVersion, Quote>>), <<>>)
PlainPackage == Layout(<<NameMember, VersionMember, MainMember>>, 2, TRUE)
PlainText(p) == IF IsCargo(p) THEN PlainCargo ELSE PlainPackage

InitRest ==
    /\ pc = "start"
    /\ exitCode = 0
    /\ out = <<>>
    /\ trace = <<>>
    /\ cppFile = [exists |-> FALSE, text |-> <<>>]
    /\ podspecFile = "ok"
    /\ git = [staged |-> FALSE, commit |-> FALSE, tag |-> FALSE,
              remoteBranch |-> FALSE, remoteTag |-> FALSE]
    /\ release = {}
    /\ ghCommands = <<>>
    /\ published = {}
    /\ fsys = [archiveDir |-> FALSE, tempDir |-> FALSE, copied |-> 0, notes |-> FALSE,
               files |-> {}]
    /\ outputs = NoOutputs
    /\ artifacts = [rnArtifacts |-> <<>>, tsArtifacts |-> <<>>]
    /\ observed = [rn |-> NoVersion, ts |-> NoVersion]

\* each manifest is there or not; one that is there is laid out plainly
InitWorld ==
    /\ InitRest
    /\ runs = <<>>
    /\ parity = <<>>
    /\ rnRelease = <<>>
    /\ install = <<>>
    /\ manifests \in [Manifests -> {[exists |-> TRUE, ver |-> OldVersion],
                                    [exists |-> FALSE, ver |-> NoVersion]}]
    /\ content = [p \in Manifests |-> IF manifests[p].exists THEN PlainText(p) ELSE <<>>]
    /\ original = content
    /\ packaged = <<>>

\* a release or a prerelease, on a checkout whose manifests are laid out in
\* every way of CargoTexts and PackageTexts
V120rc == <<"1", ".", "2", ".", "0", "-", "r", "c", ".", "1">>
InitManifests ==
    /\ args \in {<<V120>>, <<V120rc>>}
    /\ darwin = TRUE
    /\ ndk = TRUE
    /\ InitRest
    /\ runs = <<>>
    /\ parity = <<>>
    /\ rnRelease = <<>>
    /\ install = <<>>
    /\ \E ffi \in CargoTexts, ts \in {PlainCargo}, rn \in PackageTexts,
          tsp \in {PlainPackage, Layout(<<VersionMember, NameMember>>, 4, FALSE)} :
          content = [p \in Manifests |->
                        CASE p = "ddk-ffi/Cargo.toml" -> ffi
                          [] p = "ddk-ts/Cargo.toml" -> ts
                          [] p = "ddk-rn/package.json" -> rn
                          [] p = "ddk-ts/package.json" -> tsp]
    /\ original = content
    /\ packaged = <<>>
    /\ manifests = [p \in Manifests |-> [exists |-> TRUE, ver |-> VersionIn(p, content[p])]]

\* a release or a prerelease, on a checkout whose ddk-ffi/Cargo.toml is laid
\* out plainly or has its version key written without spaces
CompactCargo == CargoText(<<>>, TextLine(<<<<"version=">>, Quote, OldVersion, Quote>>), <<>>)
InitVersion ==
    /\ args \in {<<V120>>, <<V120rc>>}
    /\ darwin = TRUE
    /\ ndk = TRUE
    /\ InitRest
    /\ runs = <<>>
    /\ parity = <<>>
    /\ rnRelease = <<>>
    /\ install = <<>>
    /\ \E ffi \in {PlainCargo, CompactCargo} :
          content = [p \in Manifests |->
                        IF p = "ddk-ffi/Cargo.toml" THEN ffi ELSE PlainText(p)]
    /\ original = content
    /\ packaged = <<>>
    /\ manifests = [p \in Manifests |-> [exists |-> TRUE, ver |-> VersionIn(p, content[p])]]

Init ==
    /\ args \in SampleArgs
    /\ darwin \in BOOLEAN
    /\ ndk \in BOOLEAN
    /\ InitWorld

\* every command line whose first argument is a text of at most MaxArgLen
\* characters of ArgChars, alone or followed by one more argument
ArgChars == {"1", ".", "-", "h"}
Texts == UNION {[1..n -> ArgChars] : n \in 0..MaxArgLen}
V111h == <<"1", ".", "1", ".", "1", "-", "h">>
ArgLists ==
    {<<>>, <<HelpLong>>, <<V120, HelpLong>>, <<V111h>>}
      \cup {<<t>> : t \in Texts}
      \cup {<<t, HelpShort>> : t \in Texts}

InitArgs ==
    /\ args \in ArgLists
    /\ darwin = TRUE
    /\ ndk = TRUE
    /\ InitWorld
    /\ \A p \in Manifests : manifests[p].exists

Next ==
    \/ ParseArgs
    \/ checkGitStatus
    \/ runTests_ffi
    \/ runTests_rn
    \/ runTests_ts
    \/ updateRustVersions
    \/ updatePackageVersions
    \/ generateReactNativeBindings_jsi
    \/ generateReactNativeBindings_turbo
    \/ generateReactNativeBindings_ios
    \/ generateReactNativeBindings_android
    \/ applyHotFix
    \/ generateTypeScriptBindings_darwin
    \/ generateTypeScriptBindings_linux
    \/ generateTypeScriptBindings_build
    \/ generateTypeScriptBindings_prepublish
    \/ prepareRustSource
    \/ buildReactNativePackage
    \/ createReleaseArtifacts_begin
    \/ createReleaseArtifacts_iosCopy
    \/ createReleaseArtifacts_iosTar
    \/ createReleaseArtifacts_iosRm
    \/ createReleaseArtifacts_android
    \/ createReleaseArtifacts_ts
    \/ commitChanges_add
    \/ commitChanges_commit
    \/ createTag
    \/ pushToGitHub_branch
    \/ pushToGitHub_tag
    \/ createGitHubRelease
    \/ publishNpmPackages_whoami
    \/ publishNpmPackages_rn
    \/ publishNpmPackages_ts
    \/ publishNpmPackages_wait
    \/ publishNpmPackages_viewRn
    \/ publishNpmPackages_viewTs
    \/ main_success

Spec == Init /\ [][Next]_vars

\* the same script, started with a version on a checkout with every manifest
SpecVersion == InitVersion /\ [][Next]_vars

\* the same script, started on every short command line
SpecArgs == InitArgs /\ [][Next]_vars

\* the script up to the end of updatePackageVersions
NextManifests ==
    \/ ParseArgs
    \/ checkGitStatus
    \/ runTests_ffi
    \/ runTests_rn
    \/ runTests_ts
    \/ updateRustVersions
    \/ updatePackageVersions

SpecManifests == InitManifests /\ [][NextManifests]_vars

(***************************************************************************)
(* createReleaseArtifacts called on its own, once or several times in a    *)
(* row with the same version.                                              *)
(***************************************************************************)
InitPackager ==
    /\ args = <<V120rc>>
    /\ darwin = TRUE
    /\ ndk = TRUE
    /\ InitWorld
    /\ \A p \in Manifests : manifests[p].exists

createReleaseArtifacts_call ==
    /\ pc \in {"start", "git add"}
    /\ Len(packaged) < MaxPackagerRuns
    /\ pc' = "createReleaseArtifacts"
    /\ UNCHANGED <<env, exitCode, out, trace, world>>

NextPackager ==
    \/ createReleaseArtifacts_call
    \/ createReleaseArtifacts_begin
    \/ createReleaseArtifacts_iosCopy
    \/ createReleaseArtifacts_iosTar
    \/ createReleaseArtifacts_iosRm
    \/ createReleaseArtifacts_android
    \/ createReleaseArtifacts_ts

SpecPackager == InitPackager /\ [][NextPackager]_vars

(***************************************************************************)
(* Two runs of unified-release.js started on one checkout, each with its   *)
(* version.  The runs are two processes: a step of a run is one read or    *)
(* one write of a file, one creation of a directory or one stage of        *)
(* external commands, and the steps of the two runs interleave.  A run is  *)
(* followed up to its first archive.                                       *)
(***************************************************************************)
Runs == {1, 2}
RunVersions == <<V120, V120rc>>
\* the manifests in the order updateRustVersions and updatePackageVersions
\* take them
ManifestOrder == CargoPaths \o PackagePaths

\* `git status --porcelain` prints something: a manifest was modified
TreeDirty == \E p \in Manifests : content[p] # original[p]

single ==
    <<args, darwin, ndk, parity, rnRelease, install, pc, exitCode, out, trace, original, packaged, cppFile,
      podspecFile, git, release, ghCommands, published, outputs, artifacts, observed>>

NewRun(v) ==
    [pc |-> "checkGitStatus", ver |-> v, k |-> 1, buf |-> <<>>, clean |-> FALSE,
     wrote |-> {}, madeDir |-> FALSE, exitCode |-> 0, failed |-> "none"]

\* process.exit(1) of run r, in step fn
RunFails(r, fn) ==
    runs' = [runs EXCEPT ![r].pc = "exited", ![r].exitCode = 1, ![r].failed = fn]

\* mutant: the check also fails while another run is between its check and
\* its end, as if the runs took a lock on the checkout
twoRuns_checkGitStatus_locked(r) ==
    /\ runs[r].pc = "checkGitStatus"
    /\ \A s \in Runs \ {r} : runs[s].pc \in {"checkGitStatus", "exited", "done"}
    /\ IF TreeDirty
         THEN RunFails(r, "checkGitStatus")
         ELSE runs' = [runs EXCEPT ![r].pc = "runTests", ![r].clean = TRUE]
    /\ UNCHANGED <<single, content, manifests, fsys>>

twoRuns_checkGitStatus(r) ==
    /\ runs[r].pc = "checkGitStatus"
    /\ IF TreeDirty
         THEN RunFails(r, "checkGitStatus")
         ELSE runs' = [runs EXCEPT ![r].pc = "runTests", ![r].clean = TRUE]
    /\ UNCHANGED <<single, content, manifests, fsys>>

\* runTests: the required tests pass or one of them fails
twoRuns_runTests(r) ==
    /\ runs[r].pc = "runTests"
    /\ \E ok \in BOOLEAN :
         IF ok THEN runs' = [runs EXCEPT ![r].pc = "read"]
         ELSE RunFails(r, "runTests")
    /\ UNCHANGED <<single, content, manifests, fsys>>

\* fs.readFileSync of the next manifest
twoRuns_read(r) ==
    /\ runs[r].pc = "read"
    /\ runs' = [runs EXCEPT ![r].pc = "write",
                            ![r].buf = content[ManifestOrder[runs[r].k]]]
    /\ UNCHANGED <<single, content, manifests, fsys>>

\* fs.writeFileSync of what was read, with the version of the run
twoRuns_write(r) ==
    /\ runs[r].pc = "write"
    /\ LET p == ManifestOrder[runs[r].k] IN
         /\ content' = [content EXCEPT ![p] =
                           IF IsCargo(p) THEN ReplaceVersion(runs[r].buf, runs[r].ver)
                           ELSE RewritePackageJson(runs[r].buf, runs[r].ver)]
         /\ manifests' = Reread(manifests, content')
         /\ runs' = [runs EXCEPT
                       ![r].pc = IF runs[r].k = Len(ManifestOrder) THEN "build" ELSE "read",
                       ![r].k = IF runs[r].k = Len(ManifestOrder) THEN @ ELSE @ + 1,
                       ![r].buf = <<>>,
                       ![r].wrote = @ \cup {p}]
    /\ UNCHANGED <<single, fsys>>

\* the bindings and the packages: every build command passes or one fails
twoRuns_build(r) ==
    /\ runs[r].pc = "build"
    /\ \E ok \in BOOLEAN :
         IF ok THEN runs' = [runs EXCEPT ![r].pc = "createReleaseArtifacts"]
         ELSE RunFails(r, "build")
    /\ UNCHANGED <<single, content, manifests, fsys>>

\* ensureDir(archiveDir)
twoRuns_ensureDir(r) ==
    /\ runs[r].pc = "createReleaseArtifacts"
    /\ fsys' = [fsys EXCEPT !.archiveDir = TRUE]
    /\ runs' = [runs EXCEPT ![r].pc = "pack-android", ![r].madeDir = TRUE]
    /\ UNCHANGED <<single, content, manifests>>

\* tar -czf of the Android libraries into release-archives
twoRuns_archive(r) ==
    /\ runs[r].pc = "pack-android"
    /\ \E ok \in BOOLEAN :
         IF ok
           THEN /\ fsys' = [fsys EXCEPT !.files = @ \cup {androidArchive(runs[r].ver)}]
                /\ runs' = [runs EXCEPT ![r].pc = "done"]
           ELSE /\ fsys' = fsys
                /\ RunFails(r, "createReleaseArtifacts")
    /\ UNCHANGED <<single, content, manifests>>

twoRuns_step(r) ==
    \/ twoRuns_checkGitStatus(r)
    \/ twoRuns_runTests(r)
    \/ twoRuns_read(r)
    \/ twoRuns_write(r)
    \/ twoRuns_build(r)
    \/ twoRuns_ensureDir(r)
    \/ twoRuns_archive(r)

InitTwoRuns ==
    /\ args = <<>>
    /\ darwin = TRUE
    /\ ndk = TRUE
    /\ InitRest
    /\ runs = [r \in Runs |-> NewRun(RunVersions[r])]
    /\ parity = <<>>
    /\ rnRelease = <<>>
    /\ install = <<>>
    /\ manifests = [p \in Manifests |-> [exists |-> TRUE, ver |-> OldVersion]]
    /\ content = [p \in Manifests |-> PlainText(p)]
    /\ original = content
    /\ packaged = <<>>

NextTwoRuns == \E r \in Runs : twoRuns_step(r)

SpecTwoRuns == InitTwoRuns /\ [][NextTwoRuns]_vars

(***************************************************************************)
(* ddk-ts/scripts/verify-parity.cjs.  A name is a sequence of characters;  *)
(* the UDL file is the sequence of the names its declarations give, lib.rs *)
(* the sequence of the names of its #[napi] functions, the test file the   *)
(* set of the names called as ddk.name(.                                   *)
(***************************************************************************)
UpperLetters ==
    <<"A", "B", "C", "D", "E", "F", "G", "H", "I", "J", "K", "L", "M",
      "N", "O", "P", "Q", "R", "S", "T", "U", "V", "W", "X", "Y", "Z">>
LowerLetters ==
    <<"a", "b", "c", "d", "e", "f", "g", "h", "i", "j", "k", "l", "m",
      "n", "o", "p", "q", "r", "s", "t", "u", "v", "w", "x", "y", "z">>
\* letter.toLowerCase()
ToLowerCase(c) ==
    IF c \in Range(UpperLetters)
      THEN LowerLetters[CHOOSE i \in 1..Len(UpperLetters) : UpperLetters[i] = c]
      ELSE c

RECURSIVE ReplaceUpper(_)
\* str.replace(/[A-Z]/g, (letter) => `_${letter.toLowerCase()}`)
ReplaceUpper(s) ==
    IF s = <<>> THEN <<>>
    ELSE (IF Head(s) \in Range(UpperLetters) THEN <<"_", ToLowerCase(Head(s))>>
          ELSE <<Head(s)>>) \o ReplaceUpper(Tail(s))

\* toSnakeCase(str): ReplaceUpper, then .replace(/^_/, '')
toSnakeCase(str) ==
    LET t == ReplaceUpper(str) IN IF t # <<>> /\ t[1] = "_" THEN Tail(t) ELSE t

NamespaceName == <<"ddk_ffi">>
\* parseUDLFunctions: the declared names but ddk_ffi
parseUDLFunctions(declared) == SelectSeq(declared, LAMBDA f : f # NamespaceName)
\* napiFunctions.map(toSnakeCase)
napiFunctionsSnake(napi) == [k \in 1..Len(napi) |-> toSnakeCase(napi[k])]
missingInNAPI(udl, napi) ==
    SelectSeq(udl, LAMBDA f : f \notin Range(napiFunctionsSnake(napi)))
\* mutant: NAPI functions without a UDL counterpart are not looked for
extraInNAPI_none(udl, napi) == <<>>

extraInNAPI(udl, napi) ==
    SelectSeq(napiFunctionsSnake(napi), LAMBDA g : g \notin Range(udl))
testedFunctions(calls) == {toSnakeCase(c) : c \in calls}
untestedFunctions(udl, calls) ==
    SelectSeq(udl, LAMBDA f : f \notin testedFunctions(calls))

ParityFiles == {"ddk_ffi.udl", "lib.rs", "index.spec.ts"}

\* what verifyParity prints that matters, when the three files were read
ParityReport(udl, napi, calls) ==
    (IF missingInNAPI(udl, napi) # <<>>
       THEN <<ErrLine("Functions missing in NAPI implementation:")>> ELSE <<>>)
    \o (IF extraInNAPI(udl, napi) # <<>>
          THEN <<ErrLine("Extra functions in NAPI (not in UDL):")>> ELSE <<>>)
    \o (IF untestedFunctions(udl, calls) # <<>>
          THEN <<ErrLine("Functions without test coverage:")>> ELSE <<>>)

\* the script: verifyParity() inside try, the catch exits 1; the process ends
\* with code 0 when verifyParity returns
verifyParity ==
    /\ pc = "start"
    /\ LET udl == parseUDLFunctions(parity.udl)
           napi == parity.napi
       IN IF parity.readable # ParityFiles
            THEN Exit(<<ErrLine("Error during verification:")>>, 1)
            ELSE IF missingInNAPI(udl, napi) = <<>> /\ extraInNAPI(udl, napi) = <<>>
                   THEN Exit(ParityReport(udl, napi, parity.calls)
                               \o <<Line("Perfect parity!"),
                                     IF untestedFunctions(udl, parity.calls) = <<>>
                                       THEN Line("All functions have test coverage!")
                                       ELSE Line("Some functions lack test coverage."),
                                     Line("Summary:")>>, 0)
                   ELSE Exit(Append(ParityReport(udl, napi, parity.calls),
                                    Line("Parity issues found.")), 1)
    /\ UNCHANGED <<env, trace, runs, rnRelease, install, parity, files, manifests, cppFile, podspecFile,
                   git, release, ghCommands, published, fsys, outputs, artifacts, observed>>

\* names as the UDL file and lib.rs write them, and names as tests call them
FnNames == {<<"f">>, <<"g", "_", "h">>, <<"g", "H">>, NamespaceName}
CallNames == {<<"f">>, <<"g", "H">>}
FnLists == UNION {[1..n -> FnNames] : n \in 0..MaxFns}

InitParity ==
    /\ args = <<>>
    /\ darwin = TRUE
    /\ ndk = TRUE
    /\ InitRest
    /\ runs = <<>>
    /\ rnRelease = <<>>
    /\ install = <<>>
    /\ parity \in [udl : FnLists, napi : FnLists, calls : SUBSET CallNames,
                    readable : SUBSET ParityFiles]
    /\ manifests = [p \in Manifests |-> [exists |-> TRUE, ver |-> OldVersion]]
    /\ content = [p \in Manifests |-> PlainText(p)]
    /\ original = content
    /\ packaged = <<>>

SpecParity == InitParity /\ [][verifyParity]_vars

(***************************************************************************)
(* ddk-rn/scripts/release.js, `pnpm run release-full`: the release of the  *)
(* React Native package alone.  rnRelease holds currentVersion and         *)
(* newVersion of main, the archives create-binary-archives.js left in      *)
(* release-archives, the release the archives were uploaded to, and the    *)
(* archives named in the manual upload commands printed after a failed     *)
(* upload.                                                                 *)
(***************************************************************************)
RnPackageJson == "ddk-rn/package.json"
FfiCargo == "ddk-ffi/Cargo.toml"

\* the catch of main: the failure, the clean-up hints, process.exit(1)
ReleaseCatch(lines) ==
    Exit(lines \o <<ErrLine("Release failed"),
                    ErrLine("You may need to clean up manually:")>>, 1)

\* runCommand of release.js, called inside the try of main
release_runCommand(fn, command, cwd, ver, ok, next) ==
    /\ trace' = Append(trace, Step(fn, command, cwd, ver, ok))
    /\ IF ok
         THEN /\ Goto(next)
              /\ out' = out
         ELSE ReleaseCatch(<<CommandFailedLine(command)>>)

\* getCurrentVersion(): JSON.parse(package.json).version
getCurrentVersion(c) ==
    LET obj == JsonParse(c[RnPackageJson]) IN
      IF \E k \in 1..Len(obj) : obj[k].key = VersionName
        THEN obj[CHOOSE k \in 1..Len(obj) : obj[k].key = VersionName].value
        ELSE NoVersion

\* what release.js touches of the model is pc, exitCode, out, trace, content,
\* manifests, git, release and rnRelease
releaseFrame ==
    <<env, runs, parity, install, original, packaged, cppFile, podspecFile, ghCommands,
      published, fsys, outputs, artifacts, observed>>

\* 1. checkGitStatus(): process.exit(1) on a failure or on a dirty tree
release_checkGitStatus ==
    /\ pc = "start"
    /\ \E status \in {"fails", "clean", "dirty"} :
         /\ trace' = Append(trace, Step("checkGitStatus", "git status --porcelain",
                                        "root", NoVersion, status = "clean"))
         /\ CASE status = "fails" -> Exit(<<ErrLine("Failed to check git status")>>, 1)
              [] status = "dirty" ->
                   Exit(<<ErrLine("Git working directory is not clean"),
                          ErrLine("Uncommitted changes:")>>, 1)
              [] status = "clean" ->
                   /\ Goto("getCurrentVersion")
                   /\ out' = Append(out, Line("Git working directory is clean"))
    /\ UNCHANGED <<releaseFrame, content, manifests, git, release, rnRelease>>

\* 2. const currentVersion = getCurrentVersion()
release_currentVersion ==
    /\ pc = "getCurrentVersion"
    /\ rnRelease' = [rnRelease EXCEPT !.currentVersion = getCurrentVersion(content)]
    /\ Goto("updateRustVersion")
    /\ UNCHANGED <<releaseFrame, out, trace, content, manifests, git, release>>

\* 3. updateRustVersion(currentVersion)
updateRustVersion ==
    /\ pc = "updateRustVersion"
    /\ content' = [content EXCEPT ![FfiCargo] = ReplaceVersion(@, rnRelease.currentVersion)]
    /\ manifests' = Reread(manifests, content')
    /\ trace' = Append(trace, Step("updateRustVersion", "write", FfiCargo,
                                   rnRelease.currentVersion, TRUE))
    /\ out' = Append(out, Line("Updated Cargo.toml version"))
    /\ Goto("runTests")
    /\ UNCHANGED <<releaseFrame, git, release, rnRelease>>

\* 4. runTests(): cargo test in ddk-ffi
release_runTests ==
    /\ pc = "runTests"
    /\ \E ok \in BOOLEAN :
         release_runCommand("runTests", "cargo test", "ddk-ffi", NoVersion, ok,
                            "createBinaryArchives")
    /\ UNCHANGED <<releaseFrame, content, manifests, git, release, rnRelease>>

RnArchives == {"android-jni-libs.tar.gz", "ios-xcframeworks.tar.gz"}

\* 5. createBinaryArchives(): the script makes release-archives, then the
\* archives whose inputs it finds; it exits 1 when a step of it throws
createBinaryArchives ==
    /\ pc = "createBinaryArchives"
    /\ \E ok \in BOOLEAN, made \in SUBSET RnArchives, dir \in BOOLEAN :
         /\ ok \/ made # {} => dir
         /\ release_runCommand("createBinaryArchives",
                               "node scripts/create-binary-archives.js", "ddk-rn",
                               NoVersion, ok, "buildPackage")
         /\ rnRelease' = [rnRelease EXCEPT !.archives = made, !.archiveDir = dir]
    /\ UNCHANGED <<releaseFrame, content, manifests, git, release>>

\* 6. buildPackage(): pnpm prepare
buildPackage ==
    /\ pc = "buildPackage"
    /\ \E ok \in BOOLEAN :
         release_runCommand("buildPackage", "pnpm prepare", "ddk-rn", NoVersion, ok,
                            "commitVersionChanges")
    /\ UNCHANGED <<releaseFrame, content, manifests, git, release, rnRelease>>

\* 7. commitVersionChanges(currentVersion): git status --porcelain; nothing to
\* commit when it prints nothing.  A rewritten Cargo.toml is a change; the
\* archives and the build outputs are changes unless they are ignored.
commitVersionChanges_status ==
    /\ pc = "commitVersionChanges"
    /\ \E status \in {"fails", "clean", "dirty"} :
         /\ status = "clean" => content = original
         /\ trace' = Append(trace, Step("commitVersionChanges", "git status --porcelain",
                                        "root", NoVersion, status # "fails"))
         /\ CASE status = "fails" ->
                   ReleaseCatch(<<ErrLine("Failed to check git status or commit changes")>>)
              [] status = "clean" ->
                   /\ Goto("npm whoami")
                   /\ out' = Append(out, Line("No changes to commit, skipping commit step"))
              [] status = "dirty" ->
                   /\ Goto("git add")
                   /\ out' = out
    /\ UNCHANGED <<releaseFrame, content, manifests, git, release, rnRelease>>

\* git add . ; git commit -m "chore: sync Rust version to v..." ; git push
commitVersionChanges_commit ==
    /\ pc \in {"git add", "git commit", "git push"}
    /\ \E ok \in BOOLEAN :
         /\ trace' = Append(trace, Step("commitVersionChanges",
                                        IF pc = "git push" THEN "git push origin master" ELSE pc,
                                        "root",
                                        IF pc = "git commit" THEN rnRelease.currentVersion
                                                             ELSE NoVersion, ok))
         /\ IF ok
              THEN /\ Goto(CASE pc = "git add" -> "git commit"
                             [] pc = "git commit" -> "git push"
                             [] pc = "git push" -> "npm whoami")
                   /\ out' = out
                   /\ git' = CASE pc = "git add" -> [git EXCEPT !.staged = TRUE]
                               [] pc = "git commit" -> [git EXCEPT !.commit = TRUE]
                               [] pc = "git push" -> [git EXCEPT !.remoteBranch = TRUE]
              ELSE /\ ReleaseCatch(<<CommandFailedLine(pc),
                                     ErrLine("Failed to check git status or commit changes")>>)
                   /\ git' = git
    /\ UNCHANGED <<releaseFrame, content, manifests, release, rnRelease>>

\* 8. releaseWithPnpm(): npm whoami; not logged in is process.exit(1)
releaseWithPnpm_whoami ==
    /\ pc = "npm whoami"
    /\ \E ok \in BOOLEAN :
         /\ trace' = Append(trace, Step("releaseWithPnpm", "npm whoami", "ddk-rn",
                                        NoVersion, ok))
         /\ IF ok
              THEN /\ Goto("pnpm release")
                   /\ out' = out
              ELSE Exit(<<CommandFailedLine("npm whoami"),
                          ErrLine("You are not authenticated with npm. Please run: npm login")>>,
                        1)
    /\ UNCHANGED <<releaseFrame, content, manifests, git, release, rnRelease>>

\* the versions release-it can be told to release: the one of package.json
\* again, or a bump of it
ReleaseItVersions(current) == {current, V120, V120rc}

\* `pnpm release`: release-it sets the version of package.json, tags, publishes
\* and creates the GitHub release of that version
releaseWithPnpm_release ==
    /\ pc = "pnpm release"
    /\ \E ok \in BOOLEAN, v \in ReleaseItVersions(getCurrentVersion(content)) :
         /\ release_runCommand("releaseWithPnpm", "pnpm release", "ddk-rn", NoVersion, ok,
                               "newVersion")
         /\ IF ok
              THEN /\ content' = [content EXCEPT ![RnPackageJson] = RewritePackageJson(@, v)]
                   /\ manifests' = Reread(manifests, content')
                   /\ git' = [git EXCEPT !.tag = TRUE, !.remoteTag = TRUE]
                   /\ release' = release \cup {v}
              ELSE UNCHANGED <<content, manifests, git, release>>
    /\ UNCHANGED <<releaseFrame, rnRelease>>

\* 9. const newVersion = getCurrentVersion()
release_newVersion ==
    /\ pc = "newVersion"
    /\ rnRelease' = [rnRelease EXCEPT !.newVersion = getCurrentVersion(content)]
    /\ out' = Append(out, Line("Released version"))
    /\ Goto("uploadBinaryArchives")
    /\ UNCHANGED <<releaseFrame, trace, content, manifests, git, release>>

\* 10. uploadBinaryArchives(newVersion): a failed upload is a warning
uploadBinaryArchives ==
    /\ pc = "uploadBinaryArchives"
    /\ IF rnRelease.archives = {}
         THEN /\ out' = Append(out, ErrLine("No binary archives found, skipping upload"))
              /\ UNCHANGED <<trace, rnRelease>>
         ELSE \E ok \in BOOLEAN :
                /\ trace' = Append(trace, Step("uploadBinaryArchives", "gh release upload",
                                               "root", rnRelease.newVersion, ok))
                /\ out' = IF ok THEN out
                          ELSE out \o <<CommandFailedLine("gh release upload"),
                                        ErrLine("Failed to upload binary archives.")>>
                /\ rnRelease' = IF ok THEN [rnRelease EXCEPT !.uploadedTo = rnRelease.newVersion]
                                ELSE [rnRelease EXCEPT !.manual = rnRelease.archives]
    /\ Goto("cleanupArchives")
    /\ UNCHANGED <<releaseFrame, content, manifests, git, release>>

\* 11. cleanupArchives(), then the success lines; main returns
cleanupArchives ==
    /\ pc = "cleanupArchives"
    /\ IF rnRelease.archiveDir
         THEN \E ok \in BOOLEAN :
                /\ trace' = Append(trace, Step("cleanupArchives", "rm -rf", "root",
                                               NoVersion, ok))
                /\ IF ok
                     THEN /\ Exit(<<Line("Release completed successfully!")>>, 0)
                          /\ rnRelease' = [rnRelease EXCEPT !.archiveDir = FALSE,
                                                            !.archives = {}]
                     ELSE /\ ReleaseCatch(<<CommandFailedLine("rm -rf")>>)
                          /\ rnRelease' = rnRelease
         ELSE /\ Exit(<<Line("Release completed successfully!")>>, 0)
              /\ UNCHANGED <<trace, rnRelease>>
    /\ UNCHANGED <<releaseFrame, content, manifests, git, release>>

\* a clean checkout: package.json at the old version, Cargo.toml at the same
\* version or behind, in either layout
InitRelease ==
    /\ args = <<>>
    /\ darwin = TRUE
    /\ ndk = TRUE
    /\ InitRest
    /\ runs = <<>>
    /\ parity = <<>>
    /\ rnRelease = [currentVersion |-> NoVersion, newVersion |-> NoVersion,
                    archives |-> {}, archiveDir |-> FALSE, uploadedTo |-> NoVersion,
                    manual |-> {}]
    /\ install = <<>>
    /\ \E cargo \in {PlainCargo, ReplaceVersion(PlainCargo, V118), CompactCargo} :
         content = [p \in Manifests |->
                       IF p = FfiCargo THEN cargo ELSE PlainText(p)]
    /\ manifests = Reread([p \in Manifests |-> [exists |-> TRUE, ver |-> NoVersion]],
                          content)
    /\ original = content
    /\ packaged = <<>>

NextRelease ==
    \/ release_checkGitStatus
    \/ release_currentVersion
    \/ updateRustVersion
    \/ release_runTests
    \/ createBinaryArchives
    \/ buildPackage
    \/ commitVersionChanges_status
    \/ commitVersionChanges_commit
    \/ releaseWithPnpm_whoami
    \/ releaseWithPnpm_release
    \/ release_newVersion
    \/ uploadBinaryArchives
    \/ cleanupArchives

SpecRelease == InitRelease /\ [][NextRelease]_vars

(***************************************************************************)
(* ddk-rn/scripts/create-binary-archives.js run on its own.  outputs holds *)
(* what the builds left in ddk-rn (the jniLibs directory, the ios          *)
(* directory and the number of .xcframework entries in it), fsys the       *)
(* release-archives directory and the archives in it.                      *)
(***************************************************************************)
AndroidJniArchive == "android-jni-libs.tar.gz"
IosFrameworksArchive == "ios-xcframeworks.tar.gz"
AndroidArchiveSkipped == "Android JNI libraries not found, skipping android-jni-libs.tar.gz"
IosArchiveSkipped == "iOS XCFrameworks not found, skipping ios-xcframeworks.tar.gz"

\* the catch of main: the error, process.exit(1)
BinaryArchivesCatch == Exit(<<ErrLine("Failed to create binary archives:")>>, 1)

binaryArchivesFrame ==
    <<env, others, files, manifests, cppFile, podspecFile, git, release, ghCommands,
      published, outputs, artifacts, observed>>

\* ensureDir(archiveDir): mkdirSync when the directory is not there
binaryArchives_ensureDir ==
    /\ pc = "start"
    /\ IF fsys.archiveDir
         THEN /\ Goto("android")
              /\ UNCHANGED <<out, trace, fsys>>
         ELSE \E ok \in BOOLEAN :
                /\ trace' = Append(trace, Step("ensureDir", "mkdir", "release-archives",
                                               NoVersion, ok))
                /\ fsys' = [fsys EXCEPT !.archiveDir = ok]
                /\ IF ok THEN Goto("android") /\ out' = out
                         ELSE BinaryArchivesCatch
    /\ UNCHANGED binaryArchivesFrame

\* the Android archive: createTarGz(androidLibsDir, ...) when jniLibs exists,
\* tar -czf ... -C jniLibs .
binaryArchives_android ==
    /\ pc = "android"
    /\ IF outputs.jniLibs
         THEN \E ok \in BOOLEAN :
                /\ trace' = Append(trace, Step("createTarGz", "tar -czf", AndroidJniArchive,
                                               NoVersion, ok))
                /\ fsys' = IF ok THEN [fsys EXCEPT !.files = @ \cup {AndroidJniArchive}]
                                 ELSE fsys
                /\ IF ok THEN Goto("ios") /\ out' = out
                         ELSE BinaryArchivesCatch
         ELSE /\ out' = Append(out, ErrLine(AndroidArchiveSkipped))
              /\ Goto("ios")
              /\ UNCHANGED <<trace, fsys>>
    /\ UNCHANGED binaryArchivesFrame

\* fs.readdirSync(iosDir).filter(.xcframework): throws when ddk-rn/ios is not
\* there; no framework is a warning; else ensureDir(tempDir)
binaryArchives_iosList ==
    /\ pc = "ios"
    /\ trace' = Append(trace, Step("main", "readdir", "ddk-rn/ios", NoVersion,
                                   outputs.iosDir))
    /\ CASE ~outputs.iosDir ->
              /\ BinaryArchivesCatch
              /\ fsys' = fsys
         [] outputs.iosDir /\ outputs.frameworks = 0 ->
              /\ out' = Append(out, ErrLine(IosArchiveSkipped))
              /\ Goto("done")
              /\ fsys' = fsys
         [] outputs.iosDir /\ outputs.frameworks > 0 ->
              /\ out' = out
              /\ Goto("cp")
              /\ fsys' = [fsys EXCEPT !.tempDir = TRUE, !.copied = 0]
    /\ UNCHANGED binaryArchivesFrame

\* xcframeworkFiles.forEach: cp -R of each framework into temp-ios
binaryArchives_iosCopy ==
    /\ pc = "cp"
    /\ fsys.copied < outputs.frameworks
    /\ \E ok \in BOOLEAN :
         /\ trace' = Append(trace, Step("main", "cp -R", "temp-ios", NoVersion, ok))
         /\ fsys' = IF ok THEN [fsys EXCEPT !.copied = @ + 1] ELSE fsys
         /\ IF ok THEN Goto("cp") /\ out' = out
                  ELSE BinaryArchivesCatch
    /\ UNCHANGED binaryArchivesFrame

\* createTarGz(tempDir, iosArchive), then rm -rf of temp-ios
binaryArchives_iosTar ==
    /\ pc = "cp"
    /\ fsys.copied = outputs.frameworks
    /\ \E ok \in BOOLEAN :
         /\ trace' = Append(trace, Step("createTarGz", "tar -czf", IosFrameworksArchive,
                                        NoVersion, ok))
         /\ fsys' = IF ok THEN [fsys EXCEPT !.files = @ \cup {IosFrameworksArchive}]
                          ELSE fsys
         /\ IF ok THEN Goto("rm") /\ out' = out
                  ELSE BinaryArchivesCatch
    /\ UNCHANGED binaryArchivesFrame

binaryArchives_iosRm ==
    /\ pc = "rm"
    /\ \E ok \in BOOLEAN :
         /\ trace' = Append(trace, Step("main", "rm -rf", "temp-ios", NoVersion, ok))
         /\ fsys' = IF ok THEN [fsys EXCEPT !.tempDir = FALSE] ELSE fsys
         /\ IF ok THEN Goto("done") /\ out' = out
                  ELSE BinaryArchivesCatch
    /\ UNCHANGED binaryArchivesFrame

\* the success lines; main returns and the process ends with code 0
binaryArchives_done ==
    /\ pc = "done"
    /\ Exit(<<Line("Binary archives created successfully!")>>, 0)
    /\ UNCHANGED <<binaryArchivesFrame, trace, fsys>>

\* what the builds left, and release-archives there or not
InitBinaryArchives ==
    /\ args = <<>>
    /\ darwin = TRUE
    /\ ndk = TRUE
    /\ pc = "start" /\ exitCode = 0 /\ out = <<>> /\ trace = <<>>
    /\ cppFile = [exists |-> FALSE, text |-> <<>>]
    /\ podspecFile = "ok"
    /\ git = [staged |-> FALSE, commit |-> FALSE, tag |-> FALSE,
              remoteBranch |-> FALSE, remoteTag |-> FALSE]
    /\ release = {} /\ ghCommands = <<>> /\ published = {}
    /\ \E dir \in BOOLEAN :
         fsys = [archiveDir |-> dir, tempDir |-> FALSE, copied |-> 0, notes |-> FALSE,
                 files |-> {}]
    /\ \E ios \in BOOLEAN, n \in 0..MaxFrameworks, jni \in BOOLEAN :
         /\ ~ios => n = 0
         /\ outputs = [probed |-> FALSE, iosDir |-> ios, frameworks |-> n, jniLibs |-> jni,
                       dist |-> FALSE, listing |-> <<>>]
    /\ artifacts = [rnArtifacts |-> <<>>, tsArtifacts |-> <<>>]
    /\ observed = [rn |-> NoVersion, ts |-> NoVersion]
    /\ runs = <<>> /\ parity = <<>> /\ rnRelease = <<>> /\ install = <<>>
    /\ manifests = [p \in Manifests |-> [exists |-> TRUE, ver |-> OldVersion]]
    /\ content = [p \in Manifests |-> PlainText(p)]
    /\ original = content
    /\ packaged = <<>>

NextBinaryArchives ==
    \/ binaryArchives_ensureDir
    \/ binaryArchives_android
    \/ binaryArchives_iosList
    \/ binaryArchives_iosCopy
    \/ binaryArchives_iosTar
    \/ binaryArchives_iosRm
    \/ binaryArchives_done

SpecBinaryArchives == InitBinaryArchives /\ [][NextBinaryArchives]_vars

(***************************************************************************)
(* ddk-rn/scripts/postinstall.js, the postinstall that builds the native   *)
(* libraries.  install holds the environment variables CI and              *)
(* BUILD_NATIVE_LIBS, whether uniffi-bindgen-react-native answers through  *)
(* npx and on its own, what the package directory holds when the script    *)
(* starts, the files the script wrote, and the files verifyAllFiles found. *)
(***************************************************************************)
\* process.env.X: undefined, or a string
Undefined == [set |-> FALSE, value |-> <<>>]
EnvString(s) == [set |-> TRUE, value |-> s]
EnvValues == {Undefined, EnvString(<<>>), EnvString(<<"1">>)}
\* the truth value of process.env.X in a condition: a non-empty string
Truthy(e) == e.set /\ e.value # <<>>

SourceFiles ==
    <<"src/ddk_ffi.ts", "src/ddk_ffi-ffi.ts", "src/NativeDdkRn.ts", "src/index.tsx",
      "cpp/ddk_ffi.hpp", "cpp/ddk_ffi.cpp", "cpp/bennyblader-ddk-rn.cpp",
      "cpp/bennyblader-ddk-rn.h", "ddk-ffi/Cargo.toml", "ddk-ffi/src/lib.rs",
      "ddk-ffi/src/ddk_ffi.udl">>
ConfigFile == "ubrn.config.yaml"
CppBindings == "cpp/bennyblader-ddk-rn.cpp"

\* hasUniffiBingen(): npx uniffi-bindgen-react-native --help, else the command
\* on its own
hasUniffiBingen == install.npx \/ install.global
\* getUniffiCommand()
getUniffiCommand ==
    IF install.npx THEN "npx uniffi-bindgen-react-native" ELSE "uniffi-bindgen-react-native"

postinstallFrame ==
    <<env, runs, parity, rnRelease, files, manifests, podspecFile, git, release, ghCommands,
      published, fsys, outputs, artifacts, observed>>

\* the catch of main, and the failures found by the checks: process.exit(1)
PostinstallFailed(m) == Exit(<<ErrLine(m)>>, 1)

\* main, line 208: skip in CI unless explicitly requested
postinstall_ci ==
    /\ pc = "start"
    /\ IF Truthy(install.CI) /\ ~Truthy(install.BUILD_NATIVE_LIBS)
         THEN Exit(<<Line("Skipping native library builds in CI environment.")>>, 0)
         ELSE Goto("prerequisites") /\ out' = out
    /\ UNCHANGED <<postinstallFrame, trace, install, cppFile>>

\* mutant: the source files are not looked for
postinstall_prerequisites_noSources ==
    /\ pc = "prerequisites"
    /\ CASE ~hasUniffiBingen -> PostinstallFailed("uniffi-bindgen-react-native not found!")
         [] hasUniffiBingen /\ ~install.ffiDir ->
              PostinstallFailed("Rust source not found in package!")
         [] OTHER -> Goto("fixCppIncludePath") /\ out' = out
    /\ UNCHANGED <<postinstallFrame, trace, install, cppFile>>

\* main, lines 215-254: the tool, the bundled Rust source, the source files
postinstall_prerequisites ==
    /\ pc = "prerequisites"
    /\ CASE ~hasUniffiBingen -> PostinstallFailed("uniffi-bindgen-react-native not found!")
         [] hasUniffiBingen /\ ~install.ffiDir ->
              PostinstallFailed("Rust source not found in package!")
         [] hasUniffiBingen /\ install.ffiDir /\ Range(SourceFiles) # install.present ->
              PostinstallFailed("Missing source file")
         [] OTHER ->
              /\ Goto("fixCppIncludePath")
              /\ out' = Append(out, Line("All source files present"))
    /\ UNCHANGED <<postinstallFrame, trace, install, cppFile>>

\* fixCppIncludePath()
fixCppIncludePath ==
    /\ pc = "fixCppIncludePath"
    /\ cppFile' = FixInclude(cppFile)
    /\ install' = IF cppFile' # cppFile
                    THEN [install EXCEPT !.written = @ \cup {CppBindings}] ELSE install
    /\ Goto("buildIOS")
    /\ UNCHANGED <<postinstallFrame, out, trace>>

\* updateConfigFile(): the config is rewritten when it does not point to the
\* bundled Rust source
updateConfigFile(i) ==
    IF i.configStale THEN [i EXCEPT !.configStale = FALSE, !.written = @ \cup {ConfigFile}]
    ELSE i

\* buildIOS(): on macOS, build ios --and-generate; a failure is thrown
buildIOS ==
    /\ pc = "buildIOS"
    /\ IF darwin
         THEN \E ok \in BOOLEAN :
                /\ install' = updateConfigFile(install)
                /\ trace' = Append(trace, Step("buildIOS", "build ios --and-generate",
                                               getUniffiCommand, NoVersion, ok))
                /\ IF ok THEN Goto("buildAndroid") /\ out' = out
                         ELSE PostinstallFailed("Failed to complete installation:")
         ELSE /\ out' = Append(out, Line("Skipping iOS build (not on macOS)"))
              /\ Goto("buildAndroid")
              /\ UNCHANGED <<trace, install>>
    /\ UNCHANGED <<postinstallFrame, cppFile>>

\* buildAndroid(): with the NDK, build android --and-generate; a failure is a
\* warning
buildAndroid ==
    /\ pc = "buildAndroid"
    /\ IF ndk
         THEN \E ok \in BOOLEAN :
                /\ install' = updateConfigFile(install)
                /\ trace' = Append(trace, Step("buildAndroid", "build android --and-generate",
                                               getUniffiCommand, NoVersion, ok))
                /\ out' = IF ok THEN out ELSE Append(out, ErrLine("Android build failed"))
         ELSE /\ out' = Append(out, Line("Android NDK not found. Skipping Android build."))
              /\ UNCHANGED <<trace, install>>
    /\ Goto("verifyAllFiles")
    /\ UNCHANGED <<postinstallFrame, cppFile>>

\* verifyAllFiles(): the same eleven files, after the builds regenerated what
\* they regenerate
verifyAllFiles ==
    /\ pc = "verifyAllFiles"
    /\ \E kept \in {Range(SourceFiles), Range(SourceFiles) \ {CppBindings}} :
         /\ (\A k \in 1..Len(trace) : trace[k].fn \notin {"buildIOS", "buildAndroid"})
               => kept = Range(SourceFiles)
         /\ install' = [install EXCEPT !.found = kept]
         /\ IF kept = Range(SourceFiles)
              THEN Exit(<<Line("Installation completed successfully!")>>, 0)
              ELSE PostinstallFailed("Some required files are missing!")
    /\ UNCHANGED <<postinstallFrame, trace, cppFile>>

\* every environment, and a package directory that lacks the bundled Rust
\* source or at most one of the other source files
InitPostinstall ==
    /\ args = <<>>
    /\ darwin \in BOOLEAN
    /\ ndk \in BOOLEAN
    /\ pc = "start" /\ exitCode = 0 /\ out = <<>> /\ trace = <<>>
    /\ podspecFile = "ok"
    /\ git = [staged |-> FALSE, commit |-> FALSE, tag |-> FALSE,
              remoteBranch |-> FALSE, remoteTag |-> FALSE]
    /\ release = {} /\ ghCommands = <<>> /\ published = {}
    /\ fsys = [archiveDir |-> FALSE, tempDir |-> FALSE, copied |-> 0, notes |-> FALSE,
               files |-> {}]
    /\ outputs = NoOutputs
    /\ artifacts = [rnArtifacts |-> <<>>, tsArtifacts |-> <<>>]
    /\ observed = [rn |-> NoVersion, ts |-> NoVersion]
    /\ runs = <<>> /\ parity = <<>> /\ rnRelease = <<>>
    /\ \E ci \in EnvValues, build \in EnvValues, npx \in BOOLEAN, global \in BOOLEAN,
          ffi \in BOOLEAN, lacking \in {0, 1, 7, 11}, stale \in BOOLEAN :
         /\ install = [CI |-> ci, BUILD_NATIVE_LIBS |-> build, npx |-> npx,
                       global |-> global, ffiDir |-> ffi,
                       present |-> {SourceFiles[k] :
                                      k \in (1..Len(SourceFiles)) \ ({lacking} \cup
                                             IF ffi THEN {} ELSE {9, 10, 11})},
                       configStale |-> stale, written |-> {}, found |-> {}]
         /\ IF lacking = 7
              THEN cppFile = [exists |-> FALSE, text |-> <<>>]
              ELSE \E t \in GeneratedCpp : cppFile = [exists |-> TRUE, text |-> t]
    /\ manifests = [p \in Manifests |-> [exists |-> TRUE, ver |-> OldVersion]]
    /\ content = [p \in Manifests |-> PlainText(p)]
    /\ original = content
    /\ packaged = <<>>

NextPostinstall ==
    \/ postinstall_ci
    \/ postinstall_prerequisites
    \/ fixCppIncludePath
    \/ buildIOS
    \/ buildAndroid
    \/ verifyAllFiles

SpecPostinstall == InitPostinstall /\ [][NextPostinstall]_vars

(***************************************************************************)
(* The postinstall of ddk-rn that downloads the binaries of the release,   *)
(* run once or several times in a row in one package directory.  A path is *)
(* a sequence of names; install.disk is the set of the paths that exist in *)
(* the package directory, install.released the entries of the two archives *)
(* of the release, install.history what each finished run did.             *)
(***************************************************************************)
androidLibsDir == <<"android", "src", "main", "jniLibs">>
iosFrameworksDir == <<"ios">>
AndroidExtractDir == <<"android", "src", "main">>

IsPrefix(d, p) == Len(d) <= Len(p) /\ SubSeq(p, 1, Len(d)) = d
\* fs.existsSync(path): the path, or something under it, is there
ExistsSync(disk, path) == \E p \in disk : IsPrefix(path, p)

\* createTarGz(sourceDir, archivePath) of create-binary-archives.js, called
\* without baseDir: tar -czf archive -C sourceDir . stores the paths under
\* sourceDir relative to it
createTarGz(disk, sourceDir) ==
    {SubSeq(p, Len(sourceDir) + 1, Len(p)) :
        p \in {q \in disk : IsPrefix(sourceDir, q) /\ Len(q) > Len(sourceDir)}}
\* extractTarGz(tarPath, extractDir): tar -xzf archive -C extractDir
extractTarGz(entries, extractDir) == {extractDir \o e : e \in entries}

Abis == {"arm64-v8a", "x86_64"}
FrameworkNames == {"DdkRn.xcframework", "DdkFFI.xcframework"}
\* the build outputs create-binary-archives.js packs: jniLibs with a library
\* for each ABI built, temp-ios with the framework copied from ddk-rn/ios
BuiltJniLibs(abis) == {androidLibsDir \o <<a, "libddk_ffi.so">> : a \in abis}
BuiltFramework(name) == {<<"temp-ios", name, "Info.plist">>}

binariesFrame ==
    <<env, runs, parity, rnRelease, files, manifests, cppFile, podspecFile, git, release,
      ghCommands, published, fsys, outputs, artifacts, observed>>

\* the end of a run: process.exit(code), or the end of the script
Finish(what, lines, code) ==
    /\ Exit(lines, code)
    /\ install' = [install EXCEPT !.history = Append(@, what)]

\* lines 294-308: already installed, or skipped in CI, or download
binaries_check ==
    /\ pc = "start"
    /\ LET androidLibExists == ExistsSync(install.disk, androidLibsDir \o <<"arm64-v8a">>)
           iosFrameworkExists ==
               ExistsSync(install.disk, iosFrameworksDir \o <<"DdkFFI.xcframework">>)
       IN CASE androidLibExists /\ (~darwin \/ iosFrameworkExists) ->
                 Finish("already",
                        <<Line("Native binaries already installed, skipping download.")>>, 0)
            [] ~(androidLibExists /\ (~darwin \/ iosFrameworkExists))
                 /\ Truthy(install.CI) /\ ~Truthy(install.DOWNLOAD_BINARIES) ->
                 Finish("skipped", <<Line("Skipping binary download in CI environment.")>>, 0)
            [] OTHER ->
                 /\ Goto("android")
                 /\ UNCHANGED <<out, install>>
    /\ UNCHANGED <<binariesFrame, trace>>

\* the catch of downloadAndExtractBinaries: manual instructions, process.exit(0)
BinariesCatch(disk) ==
    /\ Exit(<<ErrLine("Failed to install native binaries:")>>, 0)
    /\ install' = [install EXCEPT !.disk = disk, !.history = Append(@, "failed")]

\* ensureDir(androidLibsDir), downloadFile, extractTarGz into android/src/main,
\* unlinkSync of the archive
downloadAndExtractBinaries_android ==
    /\ pc = "android"
    /\ \E result \in {"ok", "download", "extract"} :
         LET made == install.disk \cup {androidLibsDir} IN
           /\ trace' = trace
                \o <<Step("downloadFile", "https.get", "android-jni-libs.tar.gz",
                          NoVersion, result # "download")>>
                \o (IF result = "download" THEN <<>>
                    ELSE <<Step("extractTarGz", "tar -xzf", "android/src/main",
                                NoVersion, result = "ok")>>)
           /\ IF result = "ok"
                THEN /\ install' = [install EXCEPT !.disk =
                            made \cup extractTarGz(install.released.android, AndroidExtractDir)]
                     /\ Goto("ios")
                     /\ out' = out
                ELSE BinariesCatch(made)
    /\ UNCHANGED binariesFrame

\* on macOS the same for ios-xcframeworks.tar.gz, extracted into ios; then the
\* success line, and the script ends
downloadAndExtractBinaries_ios ==
    /\ pc = "ios"
    /\ IF darwin
         THEN \E result \in {"ok", "download", "extract"} :
                LET made == install.disk \cup {iosFrameworksDir} IN
                  /\ trace' = trace
                       \o <<Step("downloadFile", "https.get", "ios-xcframeworks.tar.gz",
                                 NoVersion, result # "download")>>
                       \o (IF result = "download" THEN <<>>
                           ELSE <<Step("extractTarGz", "tar -xzf", "ios", NoVersion,
                                       result = "ok")>>)
                  /\ IF result = "ok"
                       THEN /\ Exit(<<Line("All native binaries installed successfully!")>>, 0)
                            /\ install' = [install EXCEPT
                                 !.disk = made \cup extractTarGz(install.released.ios,
                                                                 iosFrameworksDir),
                                 !.history = Append(@, "installed")]
                       ELSE BinariesCatch(made)
         ELSE /\ Finish("installed",
                        <<Line("Skipping iOS binaries (not on macOS)"),
                          Line("All native binaries installed successfully!")>>, 0)
              /\ trace' = trace
    /\ UNCHANGED binariesFrame

\* the package is installed again
binaries_again ==
    /\ pc = "exited"
    /\ Len(install.history) < MaxInstalls
    /\ pc' = "start"
    /\ trace' = Append(trace, Step("postinstall", "again", "ddk-rn", NoVersion, TRUE))
    /\ UNCHANGED <<binariesFrame, exitCode, out, install>>

\* a package directory without binaries, and a release whose archives were
\* made by create-binary-archives.js from the libraries of some ABIs and from
\* the framework of ddk-rn/ios
InitBinaries ==
    /\ args = <<>>
    /\ darwin \in BOOLEAN
    /\ ndk = TRUE
    /\ InitRest
    /\ runs = <<>> /\ parity = <<>> /\ rnRelease = <<>>
    /\ \E ci \in EnvValues, dl \in EnvValues, abis \in SUBSET Abis, fw \in FrameworkNames :
         install = [CI |-> ci, DOWNLOAD_BINARIES |-> dl,
                    disk |-> {<<"package.json">>},
                    released |-> [android |-> createTarGz(BuiltJniLibs(abis), androidLibsDir),
                                  ios |-> createTarGz(BuiltFramework(fw), <<"temp-ios">>)],
                    history |-> <<>>]
    /\ manifests = [p \in Manifests |-> [exists |-> TRUE, ver |-> OldVersion]]
    /\ content = [p \in Manifests |-> PlainText(p)]
    /\ original = content
    /\ packaged = <<>>

NextBinaries ==
    \/ binaries_check
    \/ downloadAndExtractBinaries_android
    \/ downloadAndExtractBinaries_ios
    \/ binaries_again

SpecBinaries == InitBinaries /\ [][NextBinaries]_vars

(***************************************************************************)
(* The ts-release recipe of the justfile: a bash script under              *)
(* set -euo pipefail, run in ddk-ts with the version as its argument.      *)
(* Every simple command that exits non-zero ends the script with that      *)
(* status; the clean-tree check is an if over a command substitution.      *)
(***************************************************************************)
TsPackageJson == "ddk-ts/package.json"

\* the command lines of the recipe, in the order of the script
TsReleaseCommands ==
    <<"git status --porcelain", "npm version", "yarn build", "yarn test", "git add -A",
      "git commit", "git tag", "git push -u origin node-bindings", "git push origin tag",
      "npm publish --access public">>

tsReleaseFrame ==
    <<env, others, files, cppFile, podspecFile, release, ghCommands, fsys, outputs,
      artifacts, observed>>

\* set -e: the script ends with the status of the failed command
ErrExit == Exit(<<>>, 1)

TsStep(command, ver, ok) == Step("ts-release", command, "ddk-ts", ver, ok)

\* if [[ -n $(git status --porcelain) ]]; then echo ...; exit 1; fi
\* the status of the command substitution is not the status of [[ ]]: when
\* git status itself fails it prints nothing on stdout, the test is false and
\* the script goes on
tsRelease_status ==
    /\ pc = "start"
    /\ \E status \in {"fails", "clean", "dirty"} :
         /\ trace' = Append(trace, TsStep(TsReleaseCommands[1], NoVersion, status = "clean"))
         /\ IF status = "dirty"
              THEN Exit(<<Line("Error: Working directory is not clean.")>>, 1)
              ELSE /\ Goto(TsReleaseCommands[2])
                   /\ out' = out
    /\ UNCHANGED <<tsReleaseFrame, manifests, git, published>>

\* npm version {{version}} --no-git-tag-version
tsRelease_version ==
    /\ pc = TsReleaseCommands[2]
    /\ \E ok \in BOOLEAN :
         /\ trace' = Append(trace, TsStep(pc, version, ok))
         /\ IF ok
              THEN /\ manifests' = [manifests EXCEPT ![TsPackageJson].ver = version]
                   /\ Goto(TsReleaseCommands[3])
                   /\ out' = out
              ELSE /\ manifests' = manifests
                   /\ ErrExit
    /\ UNCHANGED <<tsReleaseFrame, git, published>>

\* yarn build, then yarn test
tsRelease_build ==
    /\ pc \in {TsReleaseCommands[3], TsReleaseCommands[4]}
    /\ \E ok \in BOOLEAN :
         /\ trace' = Append(trace, TsStep(pc, NoVersion, ok))
         /\ IF ok
              THEN /\ Goto(IF pc = TsReleaseCommands[3] THEN TsReleaseCommands[4]
                                                         ELSE TsReleaseCommands[5])
                   /\ out' = out
              ELSE ErrExit
    /\ UNCHANGED <<tsReleaseFrame, manifests, git, published>>

\* git add -A, git commit -m "chore(ddk-ts): release v{{version}}",
\* git tag "v{{version}}"
tsRelease_commit ==
    /\ pc \in {TsReleaseCommands[5], TsReleaseCommands[6], TsReleaseCommands[7]}
    /\ \E ok \in BOOLEAN :
         /\ trace' = Append(trace, TsStep(pc, IF pc = TsReleaseCommands[5] THEN NoVersion
                                                                           ELSE version, ok))
         /\ IF ok
              THEN /\ git' = CASE pc = TsReleaseCommands[5] -> [git EXCEPT !.staged = TRUE]
                               [] pc = TsReleaseCommands[6] -> [git EXCEPT !.commit = TRUE]
                               [] pc = TsReleaseCommands[7] -> [git EXCEPT !.tag = TRUE]
                   /\ Goto(CASE pc = TsReleaseCommands[5] -> TsReleaseCommands[6]
                             [] pc = TsReleaseCommands[6] -> TsReleaseCommands[7]
                             [] pc = TsReleaseCommands[7] -> TsReleaseCommands[8])
                   /\ out' = out
              ELSE /\ git' = git
                   /\ ErrExit
    /\ UNCHANGED <<tsReleaseFrame, manifests, published>>

\* git push -u origin node-bindings, git push origin "v{{version}}"
tsRelease_push ==
    /\ pc \in {TsReleaseCommands[8], TsReleaseCommands[9]}
    /\ \E ok \in BOOLEAN :
         /\ trace' = Append(trace, TsStep(pc, IF pc = TsReleaseCommands[8] THEN NoVersion
                                                                           ELSE version, ok))
         /\ IF ok
              THEN /\ git' = IF pc = TsReleaseCommands[8]
                               THEN [git EXCEPT !.remoteBranch = TRUE]
                               ELSE [git EXCEPT !.remoteTag = TRUE]
                   /\ Goto(IF pc = TsReleaseCommands[8] THEN TsReleaseCommands[9]
                                                         ELSE TsReleaseCommands[10])
                   /\ out' = out
              ELSE /\ git' = git
                   /\ ErrExit
    /\ UNCHANGED <<tsReleaseFrame, manifests, published>>

\* npm publish --access public, then the success line
tsRelease_publish ==
    /\ pc = TsReleaseCommands[10]
    /\ \E ok \in BOOLEAN :
         /\ trace' = Append(trace, TsStep(pc, NoVersion, ok))
         /\ IF ok
              THEN /\ published' = published \cup {TsPackage}
                   /\ Exit(<<Line("Released ddk-ts successfully!")>>, 0)
              ELSE /\ published' = published
                   /\ ErrExit
    /\ UNCHANGED <<tsReleaseFrame, manifests, git>>

\* just ts-release <version>
InitTsRelease ==
    /\ args \in {<<V120>>, <<V120node>>, <<V12>>}
    /\ darwin = TRUE
    /\ ndk = TRUE
    /\ InitRest
    /\ runs = <<>> /\ parity = <<>> /\ rnRelease = <<>> /\ install = <<>>
    /\ manifests = [p \in Manifests |-> [exists |-> TRUE, ver |-> OldVersion]]
    /\ content = [p \in Manifests |-> PlainText(p)]
    /\ original = content
    /\ packaged = <<>>

NextTsRelease ==
    \/ tsRelease_status
    \/ tsRelease_version
    \/ tsRelease_build
    \/ tsRelease_commit
    \/ tsRelease_push
    \/ tsRelease_publish

SpecTsRelease == InitTsRelease /\ [][NextTsRelease]_vars

(***************************************************************************)
(* apply-hotfix.js run on its own, `node ddk-rn/scripts/apply-hotfix.js`,  *)
(* once or several times in a row, on every short text of the C++ file.    *)
(***************************************************************************)
CppChars == {IncludeOpen, Slash, HeaderClose, OtherText}
CppTexts == UNION {[1..n -> CppChars] : n \in 0..MaxCppLen}

InitHotFix ==
    /\ InitWorld
    /\ args = <<>>
    /\ darwin = TRUE
    /\ ndk = TRUE
    /\ \A p \in Manifests : manifests[p].exists

hotfixScript_start ==
    /\ pc = "start"
    /\ \E t \in CppTexts : cppFile' = [exists |-> TRUE, text |-> t]
    /\ \E p \in {"ok", "stripped", "noanchor"} : podspecFile' = p
    /\ pc' = "hotfix"
    /\ UNCHANGED <<env, others, files, exitCode, out, trace, manifests, git, release, ghCommands, published,
                   fsys, outputs, artifacts, observed>>

\* if (require.main === module) applyHotFix()
hotfixScript ==
    /\ pc = "hotfix"
    /\ Len(trace) < MaxHotFixRuns
    /\ cppFile' = FixInclude(cppFile)
    /\ podspecFile' = FixPodspec(podspecFile)
    /\ trace' = Append(trace, Step("applyHotFix", "patch", "ddk-rn", NoVersion, TRUE))
    /\ out' = Append(HotFixLines(podspecFile), Line("Hot fix completed!"))
    /\ UNCHANGED <<env, others, files, pc, exitCode, manifests, git, release, ghCommands, published, fsys,
                   outputs, artifacts, observed>>

NextHotFix == hotfixScript_start \/ hotfixScript

SpecHotFix == InitHotFix /\ [][NextHotFix]_vars

(***************************************************************************)
(* The vocabulary of the properties.                                       *)
(***************************************************************************)
Exited == pc = "exited"
Idx == 1..Len(trace)
Is(e, command, cwd) == e.cmd = command /\ e.cwd = cwd
Ran(command, cwd) == \E k \in Idx : Is(trace[k], command, cwd)
Passed(command, cwd) == \E k \in Idx : Is(trace[k], command, cwd) /\ trace[k].ok
Failed(command, cwd) == \E k \in Idx : Is(trace[k], command, cwd) /\ ~trace[k].ok
Printed(m) == \E k \in 1..Len(out) : out[k].msg = m
\* the remediation checklist was printed, and it was the last thing printed
ChecklistShown == \E k \in 1..Len(out) : out[k] = Checklist[Len(Checklist)]
ChecklistLast ==
    /\ Len(out) >= Len(Checklist)
    /\ SubSeq(out, Len(out) - Len(Checklist) + 1, Len(out)) = Checklist

\* the steps of main in the order of its text
MainOrder ==
    <<<<"git status --porcelain", "root">>,
      <<"cargo test", "ddk-ffi">>,
      <<"pnpm test", "ddk-rn">>,
      <<"pnpm test", "ddk-ts">>,
      <<"write", "ddk-ffi/Cargo.toml">>,
      <<"write", "ddk-ts/Cargo.toml">>,
      <<"write", "ddk-rn/package.json">>,
      <<"write", "ddk-ts/package.json">>,
      <<"just uniffi-jsi", "root">>,
      <<"just uniffi-turbo", "root">>,
      <<"just build-ios", "root">>,
      <<"just build-android", "root">>,
      <<"patch", "ddk-rn">>,
      <<"pnpm build:darwin-arm64", "ddk-ts">>,
      <<"pnpm build:linux-x64", "ddk-ts">>,
      <<"pnpm build", "ddk-ts">>,
      <<"pnpm prepublish", "ddk-ts">>,
      <<"node scripts/prepare-rust-src.js", "ddk-rn">>,
      <<"pnpm prepare", "ddk-rn">>,
      <<"ensureDir", "release-archives">>,
      <<"cp -R", "root">>,
      <<"tar -czf ios", "root">>,
      <<"rm -rf temp-ios", "root">>,
      <<"tar -czf android", "root">>,
      <<"copyFile", "release-archives">>,
      <<"git add .", "root">>,
      <<"git commit", "root">>,
      <<"git tag -a", "root">>,
      <<"git push origin master", "root">>,
      <<"git push origin v", "root">>,
      <<"gh release create v", "root">>,
      <<"npm whoami", "root">>,
      <<"npm publish --access public", "ddk-rn">>,
      <<"npm publish --access public", "ddk-ts">>,
      <<"npm view version", "@bennyblader/ddk-rn">>,
      <<"npm view version", "@bennyblader/ddk-ts">>>>

\* the place of each step in that order
OrdOf == [p \in Range(MainOrder) |-> CHOOSE k \in 1..Len(MainOrder) : MainOrder[k] = p]
Ord(e) == OrdOf[<<e.cmd, e.cwd>>]

\* the steps of loops, which may repeat
Repeatable == {"cp -R", "copyFile"}

\* the steps whose failure main survives: they sit in a try/catch that only warns
BestEffort ==
    {<<"pnpm test", "ddk-rn">>, <<"just build-android", "root">>,
     <<"npm view version", "@bennyblader/ddk-rn">>,
     <<"npm view version", "@bennyblader/ddk-ts">>}
Fatal(e) == <<e.cmd, e.cwd>> \notin BestEffort

\* the steps every run takes when it gets that far, whatever is on disk
Unconditional ==
    {<<"git status --porcelain", "root">>, <<"cargo test", "ddk-ffi">>,
     <<"pnpm test", "ddk-rn">>, <<"pnpm test", "ddk-ts">>,
     <<"write", "ddk-rn/package.json">>, <<"write", "ddk-ts/package.json">>,
     <<"just uniffi-jsi", "root">>, <<"just uniffi-turbo", "root">>,
     <<"patch", "ddk-rn">>, <<"pnpm build", "ddk-ts">>,
     <<"pnpm prepublish", "ddk-ts">>,
     <<"node scripts/prepare-rust-src.js", "ddk-rn">>, <<"pnpm prepare", "ddk-rn">>,
     <<"ensureDir", "release-archives">>, <<"git add .", "root">>,
     <<"git commit", "root">>, <<"git tag -a", "root">>,
     <<"git push origin master", "root">>, <<"git push origin v", "root">>,
     <<"gh release create v", "root">>, <<"npm whoami", "root">>,
     <<"npm publish --access public", "ddk-rn">>,
     <<"npm publish --access public", "ddk-ts">>,
     <<"npm view version", "@bennyblader/ddk-rn">>}

\* the steps taken on macOS only
DarwinOnly ==
    {<<"just build-ios", "root">>, <<"pnpm build:darwin-arm64", "ddk-ts">>,
     <<"pnpm build:linux-x64", "ddk-ts">>}

ExpectedOrds(onDarwin) ==
    {OrdOf[p] : p \in Unconditional \cup (IF onDarwin THEN DarwinOnly ELSE {})}
ExpectedOnDarwin == ExpectedOrds(TRUE)
ExpectedElsewhere == ExpectedOrds(FALSE)
Expected == IF darwin THEN ExpectedOnDarwin ELSE ExpectedElsewhere

\* the place of the step taken before step j, 0 for the first step
OrdBefore(j) == IF j = 1 THEN 0 ELSE Ord(trace[j - 1])

\* no step that main has between the previous step and step j was left out
NothingSkipped(j) ==
    \A k \in (OrdBefore(j) + 1)..(Ord(trace[j]) - 1) : k \notin Expected

(***************************************************************************)
(* C1: In the unified release pipeline the steps run one at a time in the  *)
(* fixed order of main: a step is started only after every earlier fatal   *)
(* step has returned successfully, and once a fatal step fails no later    *)
(* step is started (the failed step is the last one and the process has    *)
(* exited).                                                                *)
(***************************************************************************)
C1_SequentialFailFast ==
    /\ \A j \in Idx :
          /\ \/ OrdBefore(j) < Ord(trace[j])
             \/ OrdBefore(j) = Ord(trace[j]) /\ trace[j].cmd \in Repeatable
          /\ NothingSkipped(j)
          /\ Fatal(trace[j]) /\ ~trace[j].ok => j = Len(trace) /\ Exited

\* a run stopped by a failed commit, after everything before it succeeded
C1_Witness ==
    /\ Exited
    /\ Failed("git commit", "root")
    /\ Passed("git add .", "root")
    /\ Passed("cargo test", "ddk-ffi")

\* the checkout, the remote, the release and the registry are as at the start
InitialManifest == {[exists |-> TRUE, ver |-> OldVersion], [exists |-> FALSE, ver |-> NoVersion]}
ManifestsUntouched == \A p \in Manifests : manifests[p] \in InitialManifest
GitUntouched ==
    ~git.staged /\ ~git.commit /\ ~git.tag /\ ~git.remoteBranch /\ ~git.remoteTag
NothingReleased == release = {} /\ published = {}
ArchivesUntouched == ~fsys.archiveDir /\ ~fsys.tempDir /\ ~fsys.notes /\ fsys.files = {}
Untouched == ManifestsUntouched /\ GitUntouched /\ NothingReleased /\ ArchivesUntouched

\* the manifests carry the release version
ManifestsSynced ==
    /\ Passed("write", "ddk-rn/package.json")
    /\ Passed("write", "ddk-ts/package.json")
    /\ \A p \in Manifests : manifests[p].exists => manifests[p].ver = version

GatesPassed ==
    /\ Passed("cargo test", "ddk-ffi")
    /\ Ran("pnpm test", "ddk-rn")
    /\ Passed("pnpm test", "ddk-ts")

RequiredBuildsPassed ==
    /\ Passed("just uniffi-jsi", "root")
    /\ Passed("just uniffi-turbo", "root")
    /\ darwin => /\ Passed("just build-ios", "root")
                 /\ Passed("pnpm build:darwin-arm64", "ddk-ts")
                 /\ Passed("pnpm build:linux-x64", "ddk-ts")
    /\ Passed("pnpm build", "ddk-ts")
    /\ Passed("pnpm prepublish", "ddk-ts")
    /\ Passed("node scripts/prepare-rust-src.js", "ddk-rn")
    /\ Passed("pnpm prepare", "ddk-rn")

Packaged ==
    /\ Passed("ensureDir", "release-archives")
    /\ fsys.archiveDir
    /\ pc \notin {"pack-ios-cp", "pack-ios-tar", "pack-ios-rm", "pack-android", "pack-ts"}
    /\ Range(artifacts.rnArtifacts) \cup Range(artifacts.tsArtifacts) \subseteq fsys.files

CommittedTaggedPushed ==
    /\ Passed("git add .", "root") /\ Passed("git commit", "root") /\ git.commit
    /\ Passed("git tag -a", "root") /\ git.tag
    /\ Passed("git push origin master", "root") /\ git.remoteBranch
    /\ Passed("git push origin v", "root") /\ git.remoteTag

AllBeforeReleasePassed ==
    /\ Passed("git status --porcelain", "root")
    /\ GatesPassed
    /\ ManifestsSynced
    /\ RequiredBuildsPassed
    /\ Packaged
    /\ CommittedTaggedPushed

(***************************************************************************)
(* C2: Whenever the run has created the GitHub release v{version} or       *)
(* published an npm package, the clean-tree check, the required tests, the *)
(* manifest updates, the required builds, the packaging, the commit, the   *)
(* tag, the branch push and the tag push have all succeeded in that run;   *)
(* and no step ever removes a release or a published package.              *)
(***************************************************************************)
C2_ReleaseOnlyAfterEverything ==
    /\ [](release # {} \/ published # {} => AllBeforeReleasePassed)
    /\ [][release \subseteq release' /\ published \subseteq published']_vars

\* the release exists and ddk-rn is published, whatever happened next
C2_Witness == release # {} /\ RnPackage \in published

(***************************************************************************)
(* The stages of the informal state machine.  CodeStage is the place of a  *)
(* step in Clean, Gated, VersionSynced, BoundAndBuilt, Packaged,           *)
(* Committed, Tagged, Pushed, Released, Published, Verified; SpecStage is  *)
(* its place when VersionSynced comes before Gated.                        *)
(***************************************************************************)
BuildFns ==
    {"generateReactNativeBindings", "applyHotFix", "generateTypeScriptBindings",
     "prepareRustSource", "buildReactNativePackage"}

StageAfterBuild(e) ==
    CASE e.fn = "createReleaseArtifacts" -> 5
      [] e.fn = "commitChanges" -> 6
      [] e.fn = "createTag" -> 7
      [] e.fn = "pushToGitHub" -> 8
      [] e.fn = "createGitHubRelease" -> 9
      [] e.fn = "publishNpmPackages" /\ e.cmd # "npm view version" -> 10
      [] e.fn = "publishNpmPackages" /\ e.cmd = "npm view version" -> 11

CodeStage(e) ==
    CASE e.fn = "checkGitStatus" -> 1
      [] e.fn = "runTests" -> 2
      [] e.fn \in {"updateRustVersions", "updatePackageVersions"} -> 3
      [] e.fn \in BuildFns -> 4
      [] OTHER -> StageAfterBuild(e)

SpecStage(e) ==
    CASE e.fn = "checkGitStatus" -> 1
      [] e.fn \in {"updateRustVersions", "updatePackageVersions"} -> 2
      [] e.fn = "runTests" -> 3
      [] e.fn \in BuildFns -> 4
      [] OTHER -> StageAfterBuild(e)

BuildStarted == \E j \in Idx : trace[j].fn \in BuildFns
WriteStarted == \E j \in Idx : trace[j].cmd = "write"

Positions(s, c) == {k \in 1..Len(s) : s[k] = c}
FirstDash(s) ==
    IF Positions(s, "-") = {} THEN 0
    ELSE CHOOSE k \in Positions(s, "-") : \A h \in Positions(s, "-") : k <= h
CoreOf(s) == IF FirstDash(s) = 0 THEN s ELSE SubSeq(s, 1, FirstDash(s) - 1)
TagOf(s) == SubSeq(s, FirstDash(s) + 1, Len(s))

RECURSIVE SplitDots(_, _)
\* the fields of s between dots, cur being the field being read
SplitDots(s, cur) ==
    IF s = <<>> THEN <<cur>>
    ELSE IF Head(s) = "." THEN <<cur>> \o SplitDots(Tail(s), <<>>)
    ELSE SplitDots(Tail(s), Append(cur, Head(s)))

IsNumber(f) == f # <<>> /\ \A k \in 1..Len(f) : f[k] \in Digits

MatchesGrammar(s) ==
    /\ Len(SplitDots(CoreOf(s), <<>>)) = 3
    /\ \A k \in 1..3 : IsNumber(SplitDots(CoreOf(s), <<>>)[k])
    /\ FirstDash(s) # 0 =>
          /\ TagOf(s) # <<>>
          /\ \A k \in 1..Len(TagOf(s)) : TagOf(s)[k] \in WordChars \cup {"."}

InvalidVersionGiven == Len(args) > 0 /\ ~MatchesGrammar(args[1])
ValidRun == Len(args) > 0 /\ MatchesGrammar(args[1]) /\ ~HelpRequested(args)

(***************************************************************************)
(* C4, as stated: for every version argument that does not match the       *)
(* grammar, the process exits 1 before any stage runs: no manifest is      *)
(* written, no external command is executed, no directory is created.      *)
(***************************************************************************)
C4_Original ==
    InvalidVersionGiven /\ pc # "start" =>
        Exited /\ exitCode = 1 /\ trace = <<>> /\ Untouched

(***************************************************************************)
(* C4, amended: for every version argument that does not match the         *)
(* grammar, the process exits before any stage runs (no manifest is        *)
(* written, no external command is executed, no directory is created),     *)
(* with code 1 unless one of the arguments is --help or -h, in which case  *)
(* the usage is printed and the code is 0.                                 *)
(***************************************************************************)
C4_InvalidVersionRejected ==
    InvalidVersionGiven /\ pc # "start" =>
        /\ Exited
        /\ trace = <<>>
        /\ Untouched
        /\ exitCode = IF HelpRequested(args) THEN 0 ELSE 1
        /\ HelpRequested(args) => Printed("Usage")

\* "1.1" was rejected
C4_Witness == args = <<<<"1", ".", "1">>>> /\ Exited /\ exitCode = 1

(***************************************************************************)
(* C5: The clean-tree check is made exactly once, as the first step,       *)
(* before any manifest write; if `git status --porcelain` reports a        *)
(* change, the process exits 1 and no test, manifest write, build,         *)
(* packaging, commit, tag, push, release or publish is performed.          *)
(***************************************************************************)
DirtyReported == Printed("Git working directory is not clean")

C5_CleanTreePrecondition ==
    /\ \A j \in Idx : Is(trace[j], "git status --porcelain", "root") <=> j = 1
    /\ DirtyReported => /\ Exited /\ exitCode = 1
                        /\ Len(trace) = 1
                        /\ Untouched

\* a run that found the tree dirty
C5_Witness == DirtyReported /\ Exited

(***************************************************************************)
(* C6: If a required gate command (`cargo test` in ddk-ffi or `pnpm test`  *)
(* in ddk-ts) exits non-zero, the process exits 1 and no stage after the   *)
(* gates executes: no binding generation, build, packaging, commit, tag,   *)
(* push, release or publish.                                               *)
(***************************************************************************)
RequiredGateFailed == Failed("cargo test", "ddk-ffi") \/ Failed("pnpm test", "ddk-ts")

C6_RequiredGateFailFast ==
    RequiredGateFailed =>
        /\ Exited /\ exitCode = 1
        /\ \A j \in Idx : trace[j].fn \in {"checkGitStatus", "runTests"}
        /\ ~trace[Len(trace)].ok
        /\ GitUntouched /\ NothingReleased /\ ArchivesUntouched

\* the TypeScript tests failed after the Rust tests had passed
C6_Witness == Failed("pnpm test", "ddk-ts") /\ Passed("cargo test", "ddk-ffi")

(***************************************************************************)
(* C7: For every run started with a valid version and no help flag, the    *)
(* process exits 0 if and only if every fatal step up to and including the *)
(* publishing of both npm packages succeeded; every run in which a fatal   *)
(* step failed exits with a non-zero code.                                 *)
(***************************************************************************)
AllFatalPassed ==
    /\ AllBeforeReleasePassed
    /\ Passed("gh release create v", "root") /\ release = {version}
    /\ Passed("npm whoami", "root")
    /\ Passed("npm publish --access public", "ddk-rn")
    /\ Passed("npm publish --access public", "ddk-ts")
    /\ published = {RnPackage, TsPackage}

SomeFatalFailed == \E j \in Idx : Fatal(trace[j]) /\ ~trace[j].ok

C7_ExitCode ==
    ValidRun /\ Exited =>
        /\ exitCode \in {0, 1}
        /\ exitCode = 0 <=> AllFatalPassed
        /\ SomeFatalFailed => exitCode # 0
        /\ AllFatalPassed \/ SomeFatalFailed

\* a run that published both packages and exited 0
C7_Witness == ValidRun /\ Exited /\ exitCode = 0 /\ published = {RnPackage, TsPackage}

(***************************************************************************)
(* C8: After both packages have been published, no outcome of the registry *)
(* verification changes the result: if a queried version differs from the  *)
(* release version, or a query fails, only a warning is printed, the       *)
(* mismatch warning names both packages with their observed versions, and  *)
(* the process still exits 0.                                              *)
(***************************************************************************)
BothPublished == published = {RnPackage, TsPackage}
BothQueried ==
    /\ Passed("npm view version", RnPackage)
    /\ Passed("npm view version", TsPackage)
QueryFailed == Failed("npm view version", RnPackage) \/ Failed("npm view version", TsPackage)
MismatchObserved == BothQueried /\ (observed.rn # version \/ observed.ts # version)

MismatchWarning ==
    \E k \in 1..(Len(out) - 2) :
        /\ out[k].msg = "Version mismatch detected"
        /\ out[k + 1].msg = "ddk-rn:" /\ out[k + 1].rn = observed.rn
        /\ out[k + 2].msg = "ddk-ts:" /\ out[k + 2].ts = observed.ts

C8_VerificationOnlyWarns ==
    /\ BothPublished => ~Exited \/ exitCode = 0
    /\ BothPublished /\ Exited =>
          /\ MismatchObserved => MismatchWarning
          /\ MismatchObserved <=> Printed("Version mismatch detected")
          /\ QueryFailed => Printed(CouldNotVerify.msg)
          /\ ~ChecklistShown

\* the registry answered the release version for ddk-rn and the old one for ddk-ts
C8_Witness ==
    /\ Exited /\ exitCode = 0
    /\ BothQueried /\ observed.rn = version /\ observed.ts = OldVersion

(***************************************************************************)
(* C9, as stated: every fatal abort of a run started with a valid version, *)
(* including a dirty working tree and missing npm authentication, is       *)
(* caught by the handler of main, which prints the remediation checklist   *)
(* before the process exits 1.                                             *)
(***************************************************************************)
C9_Original == ValidRun /\ Exited /\ exitCode = 1 => ChecklistLast

(***************************************************************************)
(* C9, amended: every fatal abort of a run started with a valid version    *)
(* that is a thrown error (a failed command or file operation) is caught   *)
(* by the handler of main, which prints the remediation checklist before   *)
(* the process exits 1; a dirty working tree and missing npm               *)
(* authentication are not caught there: the process exits 1 at once with   *)
(* its own message and the checklist is not printed.                       *)
(***************************************************************************)
NotAuthenticated == Printed("You are not authenticated with npm. Please run: npm login")

C9_ChecklistOnThrownError ==
    ValidRun /\ Exited /\ exitCode = 1 =>
        /\ SomeFatalFailed
        /\ DirtyReported => ~ChecklistShown /\ Len(trace) = 1
        /\ Failed("npm whoami", "root") => ~ChecklistShown /\ NotAuthenticated
        /\ ~DirtyReported /\ ~Failed("npm whoami", "root") => ChecklistLast

\* a failed tag aborted the run and the checklist was printed
C9_Witness == Exited /\ Failed("git tag -a", "root") /\ ChecklistLast

(***************************************************************************)
(* C10: The branch push and the tag push are two separate commands, run    *)
(* in that order; if the branch push fails after a successful commit and   *)
(* tag, the run exits 1 with the local commit and the local tag still      *)
(* present, the tag absent from the remote, no GitHub release created and  *)
(* no package published.                                                   *)
(***************************************************************************)
C10_PushBranchThenTag ==
    /\ \A j \in Idx :
          Is(trace[j], "git push origin v", "root") =>
              /\ j > 1
              /\ Is(trace[j - 1], "git push origin master", "root")
              /\ trace[j - 1].ok
    /\ git.remoteTag => Passed("git push origin v", "root")
    /\ Failed("git push origin master", "root") =>
          /\ Exited /\ exitCode = 1
          /\ Passed("git commit", "root") /\ git.commit
          /\ Passed("git tag -a", "root") /\ git.tag
          /\ ~git.remoteTag /\ ~Ran("git push origin v", "root")
          /\ NothingReleased

\* the branch push failed
C10_Witness == Failed("git push origin master", "root") /\ Exited

(***************************************************************************)
(* C11: The pipeline never undoes a completed side effect: each manifest   *)
(* write, commit, tag, push, GitHub release and npm publish that was       *)
(* performed is still in place in every later state, process exit          *)
(* included, and no reset, revert, tag deletion, release deletion or       *)
(* unpublish is ever executed.                                             *)
(***************************************************************************)
UndoCommands ==
    {"git reset", "git revert", "git checkout", "git tag -d", "git push --delete",
     "gh release delete", "npm unpublish"}

\* every effect a passed step had is in place
EffectsInPlace ==
    /\ \A p \in Manifests : Passed("write", p) => manifests[p] = [exists |-> TRUE, ver |-> version]
    /\ Passed("git commit", "root") => git.commit
    /\ Passed("git tag -a", "root") => git.tag
    /\ Passed("git push origin master", "root") => git.remoteBranch
    /\ Passed("git push origin v", "root") => git.remoteTag
    /\ Passed("gh release create v", "root") => version \in release
    /\ Passed("npm publish --access public", "ddk-rn") => RnPackage \in published
    /\ Passed("npm publish --access public", "ddk-ts") => TsPackage \in published

\* a step keeps what the steps before it did
EffectsKept ==
    /\ \A p \in Manifests : manifests[p] \notin InitialManifest => manifests'[p] = manifests[p]
    /\ git.commit => git'.commit
    /\ git.tag => git'.tag
    /\ git.remoteBranch => git'.remoteBranch
    /\ git.remoteTag => git'.remoteTag
    /\ release \subseteq release'
    /\ published \subseteq published'

C11_NoCompensation ==
    /\ [](EffectsInPlace /\ \A j \in Idx : trace[j].cmd \notin UndoCommands)
    /\ [][EffectsKept]_vars

\* the release creation failed after the tag was pushed, and the tag is still there
C11_Witness ==
    /\ Exited /\ exitCode = 1
    /\ Failed("gh release create v", "root")
    /\ git.tag /\ git.remoteTag /\ git.commit
    /\ manifests["ddk-rn/package.json"].ver = version

(***************************************************************************)
(* C12: For every valid version and every manifest content (Cargo.toml of  *)
(* ddk-ffi and ddk-ts, package.json of ddk-rn and ddk-ts), after           *)
(* updateRustVersions and updatePackageVersions the version the manifest   *)
(* declares equals the input version and all other content of the file is  *)
(* identical to its content before the update.                             *)
(***************************************************************************)
ManifestsWritten == \A p \in Manifests : Passed("write", p)

\* the text t of the manifest at p with its declared version, and nothing
\* else, changed to v
WithVersion(p, t, v) ==
    IF IsCargo(p) THEN [t EXCEPT ![CargoVersionAt(t)] = v]
    ELSE [t EXCEPT ![JsonVersionAt(t)] = JsonString(v)]

C12_VersionOnlyRewrite ==
    ManifestsWritten =>
        \A p \in Manifests :
            /\ VersionIn(p, content[p]) = version
            /\ content[p] = WithVersion(p, original[p], version)

(***************************************************************************)
(* C13: The include-path fix is idempotent for every input: for every text *)
(* x of the generated C++ file, containing zero, one or several            *)
(* occurrences of the defective literal #include "/ddk_ffi.hpp",           *)
(* patch(patch(x)) = patch(x): once the fix has been applied, applying it  *)
(* again changes nothing.                                                  *)
(***************************************************************************)
HotFixApplied == \E j \in Idx : trace[j].fn = "applyHotFix"

C13_FixIdempotent == HotFixApplied => FixInclude(cppFile) = cppFile

(***************************************************************************)
(* The place of the hot fix among the steps.                               *)
(***************************************************************************)
GenerationCommands == {"just uniffi-jsi", "just uniffi-turbo"}
CompilationCommands == {"just build-ios", "just build-android"}
LaterBuildFns == {"generateTypeScriptBindings", "prepareRustSource", "buildReactNativePackage"}
PatchedBefore(j) == \E i \in 1..(j - 1) : trace[i].fn = "applyHotFix"
PassedBefore(j, command) == \E i \in 1..(j - 1) : trace[i].cmd = command /\ trace[i].ok
RanBefore(j, command) == \E i \in 1..(j - 1) : trace[i].cmd = command

(***************************************************************************)
(* C14, as stated: in every run the include-path patch (applyHotFix) is    *)
(* applied after the binding generation commands (uniffi-jsi,              *)
(* uniffi-turbo) have run and before any compilation command of the        *)
(* generated bindings (build-ios, build-android) is started.               *)
(***************************************************************************)
C14_Original ==
    \A j \in Idx :
        /\ trace[j].fn = "applyHotFix" =>
              \A c \in GenerationCommands : PassedBefore(j, c)
        /\ trace[j].cmd \in CompilationCommands => PatchedBefore(j)

(***************************************************************************)
(* C14, amended: in every run the include-path patch (applyHotFix) is      *)
(* applied once, after the binding generation commands (uniffi-jsi,        *)
(* uniffi-turbo) and after the compilation commands of                     *)
(* generateReactNativeBindings (build-ios on macOS, build-android when the *)
(* NDK is configured) have run, and before the TypeScript builds,          *)
(* prepareRustSource and buildReactNativePackage are started.              *)
(***************************************************************************)
C14_PatchAfterBuild ==
    \A j \in Idx :
        /\ trace[j].fn = "applyHotFix" =>
              /\ \A c \in GenerationCommands : PassedBefore(j, c)
              /\ darwin => PassedBefore(j, "just build-ios")
              /\ ndk => RanBefore(j, "just build-android")
              /\ ~PatchedBefore(j)
        /\ trace[j].cmd \in CompilationCommands => ~PatchedBefore(j)
        /\ trace[j].fn \in LaterBuildFns => PatchedBefore(j)

\* the hot fix was applied after both builds, and the TypeScript build started
C14_Witness ==
    /\ HotFixApplied
    /\ Passed("just build-ios", "root")
    /\ Ran("just build-android", "root")
    /\ Ran("pnpm build", "ddk-ts")

(***************************************************************************)
(* The artifact list returned by createReleaseArtifacts.                   *)
(***************************************************************************)
PackagingReturned == pc = "git add" \/ Ran("git add .", "root")
ArtifactList == artifacts.rnArtifacts \o artifacts.tsArtifacts
CountOf(s, a) == Cardinality({k \in 1..Len(s) : s[k] = a})
PlatformTags == {"darwin-arm64", "linux-x64", "unknown"}
\* the .node files of dist that are filed under tag
NodeFilesOf(tag) ==
    {k \in 1..Len(outputs.listing) :
        LET f == outputs.listing[k] IN
          /\ f[Len(f)] = "node"
          /\ CASE tag = "darwin-arm64" -> "darwin" \in Range(f)
               [] tag = "linux-x64" -> "darwin" \notin Range(f) /\ "linux" \in Range(f)
               [] tag = "unknown" -> "darwin" \notin Range(f) /\ "linux" \notin Range(f)}
WellNamed(a) ==
    /\ a.ver = version
    /\ \/ a.kind = "react-native" /\ a.ext = "tar.gz"
             /\ a.platform \in {"ios-xcframeworks", "android-jni"}
       \/ a.kind = "typescript" /\ a.ext = "node" /\ a.platform \in PlatformTags

(***************************************************************************)
(* C15, as stated: after createReleaseArtifacts, for each platform whose   *)
(* build output directory exists (ddk-rn/ios, jniLibs, ddk-ts/dist, where  *)
(* a platform of dist is one that has a .node file there) the artifact     *)
(* list contains exactly one artifact for that platform, named             *)
(* {componentKind}-{platformTag}-{version}.{ext}, located in the archive   *)
(* directory, which exists afterwards.                                     *)
(***************************************************************************)
C15_Original ==
    PackagingReturned =>
        /\ fsys.archiveDir
        /\ \A k \in 1..Len(ArtifactList) :
              WellNamed(ArtifactList[k]) /\ ArtifactList[k] \in fsys.files
        /\ outputs.iosDir => CountOf(ArtifactList, iosArchive(version)) = 1
        /\ outputs.jniLibs => CountOf(ArtifactList, androidArchive(version)) = 1
        /\ \A tag \in PlatformTags :
              outputs.dist /\ NodeFilesOf(tag) # {} =>
                  CountOf(ArtifactList, Artifact("typescript", tag, version, "node")) = 1

(***************************************************************************)
(* C15, amended: after createReleaseArtifacts the archive directory exists *)
(* and every artifact of the list is a file in it named                    *)
(* {componentKind}-{platformTag}-{version}.{ext}; the list holds exactly   *)
(* one iOS archive if ddk-rn/ios exists and holds a .xcframework, and none *)
(* otherwise; exactly one Android archive if jniLibs exists, and none      *)
(* otherwise; and one typescript entry per .node file of ddk-ts/dist,      *)
(* under the tag darwin-arm64, linux-x64 or unknown of the file's name, so *)
(* that as many entries have the same name as files have the same tag.     *)
(***************************************************************************)
C15_ArtifactList ==
    PackagingReturned =>
        /\ fsys.archiveDir
        /\ \A k \in 1..Len(ArtifactList) :
              WellNamed(ArtifactList[k]) /\ ArtifactList[k] \in fsys.files
        /\ CountOf(ArtifactList, iosArchive(version)) =
              IF outputs.iosDir /\ outputs.frameworks > 0 THEN 1 ELSE 0
        /\ CountOf(ArtifactList, androidArchive(version)) =
              IF outputs.jniLibs THEN 1 ELSE 0
        /\ \A tag \in PlatformTags :
              CountOf(ArtifactList, Artifact("typescript", tag, version, "node")) =
                  IF outputs.dist THEN Cardinality(NodeFilesOf(tag)) ELSE 0
        /\ Len(ArtifactList) =
              CountOf(ArtifactList, iosArchive(version))
                + CountOf(ArtifactList, androidArchive(version))
                + Len(artifacts.tsArtifacts)

\* an iOS archive, an Android archive and two .node files were packaged
C15_Witness ==
    /\ PackagingReturned
    /\ Len(artifacts.rnArtifacts) = 2
    /\ Len(artifacts.tsArtifacts) = 2
    /\ artifacts.tsArtifacts[1] # artifacts.tsArtifacts[2]

(***************************************************************************)
(* C16: If a platform's build output directory is absent,                  *)
(* createReleaseArtifacts returns without error an artifact list with no   *)
(* artifact for that platform, and the pipeline still proceeds to commit,  *)
(* tag, push, release and publish, including when the artifact list is     *)
(* empty: a run that found no output directory leaves                      *)
(* createReleaseArtifacts with the empty list and starts the commit, and   *)
(* it fails only where a later command fails.                              *)
(***************************************************************************)
PackagingStarted == outputs.probed
NoOutputDirectory == ~outputs.iosDir /\ ~outputs.jniLibs /\ ~outputs.dist
PackagingFns == {"createReleaseArtifacts"}
FailedIn(fns) == \E j \in Idx : trace[j].fn \in fns /\ ~trace[j].ok

C16_AbsentOutputsOmitted ==
    /\ PackagingStarted /\ ~outputs.iosDir =>
          CountOf(ArtifactList, iosArchive(version)) = 0 /\ ~Ran("tar -czf ios", "root")
    /\ PackagingStarted /\ ~outputs.jniLibs =>
          CountOf(ArtifactList, androidArchive(version)) = 0
            /\ ~Ran("tar -czf android", "root")
    /\ PackagingStarted /\ ~outputs.dist =>
          artifacts.tsArtifacts = <<>> /\ ~Ran("copyFile", "release-archives")
    /\ PackagingStarted /\ NoOutputDirectory =>
          /\ ArtifactList = <<>>
          /\ ~FailedIn(PackagingFns)
          /\ Exited => Ran("git add .", "root")
          /\ Exited /\ exitCode = 1 => SomeFatalFailed
          /\ Exited /\ ~SomeFatalFailed => exitCode = 0 /\ BothPublished /\ release = {version}

\* a run without any build output released and published, with an empty list
C16_Witness ==
    /\ PackagingStarted /\ NoOutputDirectory
    /\ Exited /\ exitCode = 0
    /\ Passed("git commit", "root") /\ Passed("git tag -a", "root")
    /\ Passed("git push origin v", "root")
    /\ release # {} /\ BothPublished

(***************************************************************************)
(* C17: Running createReleaseArtifacts twice with the same version and the *)
(* same build outputs yields the same artifact list (identical names) and  *)
(* the same set of files in the archive directory as running it once; the  *)
(* second run overwrites the archives written by the first.                *)
(***************************************************************************)
C17_PackagerIdempotent ==
    \A i \in 1..(Len(packaged) - 1) :
        packaged[i].found = packaged[i + 1].found =>
            /\ packaged[i + 1].returned = packaged[i].returned
            /\ packaged[i + 1].archiveDir = packaged[i].archiveDir

\* two calls that found an iOS framework, the Android libraries and two
\* .node files
C17_Witness ==
    /\ Len(packaged) = 2
    /\ packaged[1].found = packaged[2].found
    /\ Len(packaged[2].returned.rnArtifacts) = 2
    /\ Len(packaged[2].returned.tsArtifacts) = 2

(***************************************************************************)
(* C18, as stated: at the end of every successful run the scratch archive  *)
(* directory (release-archives) has been removed: it does not exist when   *)
(* the process exits 0; after a failed run it is left in place.            *)
(***************************************************************************)
ArchiveDirCreated == Passed("ensureDir", "release-archives")

ReleaseTag == <<"v">> \o version
PlatformLabel(a) == <<a.kind, "-", a.platform>>

C19_ReleaseAssets ==
    /\ Len(ghCommands) <= 1
    /\ Exited /\ exitCode = 0 /\ ValidRun => Len(ghCommands) = 1 /\ release = {version}
    /\ \A n \in 1..Len(ghCommands) :
          /\ ghCommands[n].tag = ReleaseTag
          /\ ghCommands[n].title = ReleaseTag
          /\ Len(ghCommands[n].assets) = Len(ArtifactList)
          /\ \A k \in 1..Len(ArtifactList) :
                /\ ghCommands[n].assets[k].file = ArtifactList[k]
                /\ ghCommands[n].assets[k].label = PlatformLabel(ArtifactList[k])


(***************************************************************************)
(* C20.  npm publish is run only after npm whoami has succeeded in the     *)
(* same run; when npm whoami fails the process exits 1 after the line      *)
(* that tells to run npm login, and no package is published.               *)
(***************************************************************************)
PublishCommand == "npm publish --access public"
IsPublish(e) == e.cmd = PublishCommand
LoginGuidance == "You are not authenticated with npm. Please run: npm login"

C20_PublishAfterWhoami ==
    /\ \A k \in Idx : IsPublish(trace[k]) =>
          \E j \in 1..(k - 1) : Is(trace[j], "npm whoami", "root") /\ trace[j].ok
    /\ published # {} => Passed("npm whoami", "root")
    /\ Failed("npm whoami", "root") =>
          /\ Exited /\ exitCode = 1
          /\ out[Len(out)].msg = LoginGuidance
          /\ published = {}
          /\ \A k \in Idx : ~IsPublish(trace[k])

C20_Witness ==
    /\ Failed("npm whoami", "root") /\ Exited /\ Printed(LoginGuidance)
    /\ release = {version} /\ published = {}


(***************************************************************************)
(* C21, as stated: if the arguments contain --help or -h, at any position, *)
(* the usage is printed and the process exits 0 without running a stage;   *)
(* otherwise, if the version argument is missing or does not match the     *)
(* grammar, the process exits 1 with an error written to standard error    *)
(* and runs no stage.                                                      *)
(***************************************************************************)
NoStageRun == trace = <<>> /\ Untouched
Parsed == pc # "start"
VersionAbsent == Len(args) = 0 \/ args[1] = <<>>
WrittenTo(s) == \E k \in 1..Len(out) : out[k].stream = s
HelpExit ==
    Parsed /\ HelpRequested(args) =>
        Exited /\ exitCode = 0 /\ Printed("Usage") /\ NoStageRun

C21_Original ==
    /\ HelpExit
    /\ Parsed /\ ~HelpRequested(args) /\ (VersionAbsent \/ InvalidVersionGiven) =>
          Exited /\ exitCode = 1 /\ WrittenTo("stderr") /\ NoStageRun

(***************************************************************************)
(* C21, amended: if the arguments contain --help or -h, at any position,   *)
(* the usage is printed and the process exits 0 without running a stage;   *)
(* otherwise, if the version argument is missing (or empty) the usage is   *)
(* printed on standard output, nothing on standard error, and the process  *)
(* exits 1; if it is there and does not match the grammar, the error       *)
(* "Invalid version format" is written to standard error and the process   *)
(* exits 1; in both cases no stage runs.                                   *)
(***************************************************************************)
C21_UsageAndRejection ==
    /\ HelpExit
    /\ Parsed /\ ~HelpRequested(args) /\ VersionAbsent =>
          /\ Exited /\ exitCode = 1 /\ NoStageRun
          /\ out = <<Line("Usage")>> /\ ~WrittenTo("stderr")
    /\ Parsed /\ ~HelpRequested(args) /\ ~VersionAbsent /\ InvalidVersionGiven =>
          /\ Exited /\ exitCode = 1 /\ NoStageRun
          /\ out = <<ErrLine("Invalid version format")>>

\* no argument: the usage was printed on standard output and the code is 1
C21_Witness ==
    /\ args = <<>> /\ Exited /\ exitCode = 1
    /\ Printed("Usage") /\ ~WrittenTo("stderr")


(***************************************************************************)
(* C22.  A failure of pnpm test in ddk-rn does not end the run: the        *)
(* warning is printed, the process has not exited because of it, and the   *)
(* step that follows it is pnpm test in ddk-ts.  (That the run can then    *)
(* end with code 0 is the state of C22_Witness.)                           *)
(***************************************************************************)
RnTestsWarning == "No React Native tests found or tests skipped"
IsRnTest(e) == Is(e, "pnpm test", "ddk-rn")

C22_OptionalGateContinues ==
    \A k \in Idx : IsRnTest(trace[k]) /\ ~trace[k].ok =>
        /\ Printed(RnTestsWarning)
        /\ k = Len(trace) => pc = "pnpm test ts" /\ ~ChecklistShown
        /\ k < Len(trace) => Is(trace[k + 1], "pnpm test", "ddk-ts")

C22_Witness ==
    /\ Failed("pnpm test", "ddk-rn") /\ Passed("pnpm test", "ddk-ts")
    /\ Exited /\ exitCode = 0 /\ BothPublished


(***************************************************************************)
(* C23.  When ddk-rn/package.json or ddk-ts/package.json is missing, the   *)
(* run does not get past updatePackageVersions: no build, commit, tag,     *)
(* push, release or publish step is taken, and the step that reads the     *)
(* missing file fails and ends the run with code 1.  A Cargo.toml that is  *)
(* missing is skipped: it is not written, updateRustVersions does not      *)
(* fail, and the run goes on to updatePackageVersions.                     *)
(***************************************************************************)
Missing(p) == ~manifests[p].exists
RequiredMissing == \E p \in Range(PackagePaths) : Missing(p)
EarlyFns == {"checkGitStatus", "runTests", "updateRustVersions", "updatePackageVersions"}
PackageWriteFailed ==
    /\ trace # <<>>
    /\ trace[Len(trace)].fn = "updatePackageVersions"
    /\ ~trace[Len(trace)].ok
    /\ Missing(trace[Len(trace)].cwd)
    /\ \A j \in 1..(Len(trace) - 1) : trace[j].fn = "updatePackageVersions" =>
           trace[j].ok /\ ~Missing(trace[j].cwd)

C23_MissingManifests ==
    /\ RequiredMissing =>
          /\ \A j \in Idx : trace[j].fn \in EarlyFns
          /\ GitUntouched /\ NothingReleased /\ ArchivesUntouched
          /\ ValidRun /\ Exited => exitCode = 1
          /\ (\E j \in Idx : trace[j].fn = "updatePackageVersions") =>
                Exited /\ exitCode = 1 /\ PackageWriteFailed /\ ChecklistLast
    /\ \A p \in Range(CargoPaths) : Missing(p) =>
          /\ \A j \in Idx : trace[j].cwd # p
          /\ content[p] = original[p]
          /\ \A j \in Idx : trace[j].fn = "updateRustVersions" => trace[j].ok
          /\ pc = "updatePackageVersions" => ~Exited /\ ~ChecklistShown

\* ddk-ts/Cargo.toml was skipped, ddk-rn/package.json was written, and the
\* read of the missing ddk-ts/package.json ended the run
C23_Witness ==
    /\ Missing("ddk-ts/Cargo.toml") /\ Missing("ddk-ts/package.json")
    /\ Exited /\ exitCode = 1 /\ PackageWriteFailed
    /\ Passed("write", "ddk-ffi/Cargo.toml") /\ Passed("write", "ddk-rn/package.json")


(***************************************************************************)
(* C24.  Off macOS just build-ios is never run, and without the NDK        *)
(* variables just build-android is never run; each skip prints its         *)
(* warning, the step that follows is taken (the Android build or its skip  *)
(* after the iOS skip, applyHotFix after the Android skip), and a run in   *)
(* which no fatal step failed exits 0 whatever was skipped.                *)
(***************************************************************************)
IosSkipWarning == "Skipping iOS build (not on macOS)"
AndroidSkipWarning == "Skipping Android build (NDK not configured)"
TurboPassed == Passed("just uniffi-turbo", "root")
PastIos == TurboPassed /\ pc # "build-ios"
PastAndroid == PastIos /\ (darwin => Passed("just build-ios", "root")) /\ pc # "build-android"
\* the step taken right after step k, if one was taken, belongs to fns
NextStepIn(k, fns) == k < Len(trace) => trace[k + 1].fn \in fns

C24_PlatformSkips ==
    /\ ~darwin =>
          /\ ~Ran("just build-ios", "root")
          /\ PastIos => Printed(IosSkipWarning)
          /\ \A k \in Idx : Is(trace[k], "just uniffi-turbo", "root") /\ trace[k].ok =>
                /\ k = Len(trace) => pc \in {"build-ios", "build-android", "applyHotFix"}
                /\ NextStepIn(k, {"generateReactNativeBindings", "applyHotFix"})
                /\ ndk /\ k < Len(trace) => Is(trace[k + 1], "just build-android", "root")
    /\ ~ndk =>
          /\ ~Ran("just build-android", "root")
          /\ PastAndroid =>
                /\ Printed(AndroidSkipWarning)
                /\ pc = "applyHotFix" \/ Ran("patch", "ddk-rn")
          /\ \A k \in Idx : trace[k].fn = "generateReactNativeBindings" =>
                NextStepIn(k, {"generateReactNativeBindings", "applyHotFix"})
    /\ ValidRun /\ Exited /\ ~SomeFatalFailed => exitCode = 0

C24_Witness ==
    /\ ~darwin /\ ~ndk /\ Exited /\ exitCode = 0 /\ BothPublished
    /\ Printed(IosSkipWarning) /\ Printed(AndroidSkipWarning)


(***************************************************************************)
(* C25.  No external command is retried in a run: a command (its command   *)
(* line and its directory) is run at most once, cp -R being run once for   *)
(* each framework found, and after a command has failed the same command   *)
(* is never run again.                                                     *)
(***************************************************************************)
InProcess == {"write", "patch", "ensureDir", "copyFile"}
External(e) == e.cmd \notin InProcess
SameCommand(a, b) == a.cmd = b.cmd /\ a.cwd = b.cwd
CopySteps == {k \in Idx : trace[k].cmd = "cp -R"}

C25_NoRetry ==
    /\ \A j \in Idx, k \in Idx :
          j < k /\ External(trace[j]) /\ SameCommand(trace[j], trace[k]) =>
              /\ trace[j].cmd = "cp -R"
              /\ trace[j].ok
    /\ Cardinality(CopySteps) <= outputs.frameworks
    /\ Cardinality({k \in CopySteps : trace[k].ok}) =
          IF Ran("tar -czf ios", "root") THEN outputs.frameworks ELSE fsys.copied

\* the Android build failed, two frameworks were copied, and the run went on
\* to its end
C25_Witness ==
    /\ Failed("just build-android", "root") /\ Failed("pnpm test", "ddk-rn")
    /\ Cardinality(CopySteps) = 2
    /\ Exited /\ exitCode = 0


(***************************************************************************)
(* C26.  The release version is the first command line argument for the    *)
(* whole run, and everything that carries a version carries that one: the  *)
(* text written to each manifest is the text read, rewritten with it; the  *)
(* commit message, the tag that is created and pushed, the tag and the     *)
(* title of the release and the name of every artifact embed it.  No step  *)
(* after the writes takes a version from a manifest: this holds where a    *)
(* manifest declares another version after the writes.                     *)
(***************************************************************************)
VersionedCommands ==
    {"write", "git commit", "git tag -a", "git push origin v", "gh release create v",
     "tar -czf ios", "tar -czf android", "copyFile"}
Written(p) == Passed("write", p)
Rewritten(p) ==
    IF IsCargo(p) THEN ReplaceVersion(original[p], version)
    ELSE RewritePackageJson(original[p], version)
VersionCarried ==
    /\ \A k \in Idx :
          /\ trace[k].ver \in {NoVersion, version}
          /\ trace[k].cmd \in VersionedCommands => trace[k].ver = version
    /\ \A p \in Manifests :
          content[p] = IF Written(p) THEN Rewritten(p) ELSE original[p]
    /\ \A a \in fsys.files \cup Range(ArtifactList) : a.ver = version
    /\ \A n \in 1..Len(ghCommands) :
          ghCommands[n].tag = ReleaseTag /\ ghCommands[n].title = ReleaseTag
    /\ release \subseteq {version}

CopiedFiles == {k \in Idx : trace[k].cmd = "copyFile"}
NoDuplicatePath ==
    \A i \in 1..Len(ArtifactList), j \in 1..Len(ArtifactList) :
        i # j => ArtifactList[i] # ArtifactList[j]

C27_ArtifactsWrittenOnce ==
    PackagingReturned =>
        /\ NoDuplicatePath
        /\ Cardinality(CopiedFiles) = Cardinality(Range(artifacts.tsArtifacts))
        /\ \A i \in 1..Len(nodeFiles(outputs.listing)),
              j \in 1..Len(nodeFiles(outputs.listing)) :
              nodeFiles(outputs.listing)[i] # nodeFiles(outputs.listing)[j] =>
                  artifacts.tsArtifacts[i] # artifacts.tsArtifacts[j]


(***************************************************************************)
(* C28.  Nothing makes a run wait for another run on the same checkout: a  *)
(* run that has not ended can always take its next step, whatever the      *)
(* other run is doing; the only test is the clean-tree check each run      *)
(* makes at its start, after which a run ends early only because a         *)
(* command of its own failed.  (That both runs pass the check and both     *)
(* write the manifests and the archive directory, their writes             *)
(* interleaved, is the state of C28_Witness.)                              *)
(***************************************************************************)
Running(r) == runs[r].pc \notin {"exited", "done"}
OwnFailures == {"runTests", "build", "createReleaseArtifacts"}

C28_NoMutualExclusion ==
    \A r \in Runs :
        /\ Running(r) => ENABLED twoRuns_step(r)
        /\ runs[r].pc = "exited" =>
              IF runs[r].clean THEN runs[r].failed \in OwnFailures
              ELSE /\ runs[r].failed = "checkGitStatus"
                   /\ \E s \in Runs \ {r} : runs[s].wrote # {}

\* both runs passed the check, wrote the four manifests and their archive;
\* ddk-ffi/Cargo.toml was last written by run 1 and ddk-rn/package.json by
\* run 2
C28_Witness ==
    /\ \A r \in Runs :
          /\ runs[r].pc = "done" /\ runs[r].clean /\ runs[r].madeDir
          /\ runs[r].wrote = Manifests
          /\ androidArchive(runs[r].ver) \in fsys.files
    /\ manifests["ddk-ffi/Cargo.toml"].ver = V120
    /\ manifests["ddk-rn/package.json"].ver = V120rc


(***************************************************************************)
(* C29, as stated: verifyParity exits 1 if and only if some UDL function   *)
(* has no NAPI function of the same snake_case name or some NAPI function  *)
(* has no UDL counterpart; functions without test coverage are only        *)
(* reported and never change the exit status.                              *)
(***************************************************************************)
UdlNames == Range(parseUDLFunctions(parity.udl))
NapiNames == {toSnakeCase(g) : g \in Range(parity.napi)}
ParityMismatch == UdlNames # NapiNames
Uncovered == \E f \in UdlNames : \A c \in parity.calls : toSnakeCase(c) # f

C29_Original ==
    Exited =>
        /\ exitCode \in {0, 1}
        /\ exitCode = 1 <=> ParityMismatch

(***************************************************************************)
(* C29, amended: verifyParity exits with status 1 if and only if one of    *)
(* the three files it reads (the UDL file, lib.rs, the test file) cannot   *)
(* be read, or some UDL function (a declaration named ddk_ffi is not       *)
(* counted) is not the toSnakeCase of the name of a NAPI function, or the  *)
(* toSnakeCase of the name of some NAPI function is not a UDL function;    *)
(* otherwise it exits 0.  When the files are read, functions without test  *)
(* coverage are reported and do not change the exit status.                *)
(***************************************************************************)
AllRead == parity.readable = ParityFiles

C29_ParityExitStatus ==
    Exited =>
        /\ exitCode \in {0, 1}
        /\ exitCode = 1 <=> ~AllRead \/ ParityMismatch
        /\ AllRead =>
              (Uncovered <=> Printed("Functions without test coverage:"))

\* perfect parity of two functions, one of them not covered: exit 0
C29_Witness ==
    /\ Exited /\ exitCode = 0 /\ AllRead
    /\ Len(parity.udl) = 2 /\ parity.udl[1] # parity.udl[2]
    /\ <<"g", "H">> \in Range(parity.napi)
    /\ Uncovered /\ Printed("Some functions lack test coverage.")


(***************************************************************************)
(* C30: when release.js completes successfully, the version of             *)
(* ddk-ffi/Cargo.toml is the version of ddk-rn/package.json, the version   *)
(* that was released (newVersion, read after `pnpm release`).              *)
(***************************************************************************)
ReleaseCompleted == Exited /\ exitCode = 0 /\ Printed("Release completed successfully!")

C30_RustVersionMatchesRelease ==
    ReleaseCompleted =>
        /\ rnRelease.newVersion = manifests[RnPackageJson].ver
        /\ rnRelease.newVersion \in release
        /\ manifests[FfiCargo].ver = rnRelease.newVersion


(***************************************************************************)
(* C31.  The version update is not transactional: when it fails partway    *)
(* (a package.json cannot be read), the process exits 1, the manifests     *)
(* already rewritten keep the new version, the remaining manifests keep    *)
(* their old content, and nothing has been committed, tagged, pushed or    *)
(* published.                                                              *)
(***************************************************************************)
ReleaseFns ==
    {"commitChanges", "createTag", "pushToGitHub", "createGitHubRelease",
     "publishNpmPackages"}
UpdateFailedPartway == Exited /\ PackageWriteFailed

C31_NotTransactional ==
    UpdateFailedPartway =>
        /\ exitCode = 1
        /\ \A p \in Manifests :
              IF Written(p)
                THEN content[p] = Rewritten(p) /\ manifests[p].ver = version
                ELSE /\ content[p] = original[p]
                     /\ manifests[p].exists => manifests[p].ver = OldVersion
        /\ GitUntouched /\ NothingReleased
        /\ \A k \in Idx : trace[k].fn \notin ReleaseFns

\* ddk-rn/package.json cannot be read: both Cargo.toml carry the new version
\* and ddk-ts/package.json still carries the old one
C31_Witness ==
    /\ UpdateFailedPartway /\ exitCode = 1
    /\ Missing("ddk-rn/package.json") /\ ~Missing("ddk-ts/package.json")
    /\ Written("ddk-ffi/Cargo.toml") /\ manifests["ddk-ffi/Cargo.toml"].ver = version
    /\ content["ddk-ffi/Cargo.toml"] # original["ddk-ffi/Cargo.toml"]
    /\ ~Written("ddk-ts/package.json")
    /\ manifests["ddk-ts/package.json"].ver = OldVersion


(***************************************************************************)
(* C32.  When a required test command (cargo test in ddk-ffi, pnpm test in *)
(* ddk-ts) fails, the run has modified no manifest: every Cargo.toml and   *)
(* package.json has exactly the content it had when the run started.       *)
(***************************************************************************)
RequiredTestFailed == Failed("cargo test", "ddk-ffi") \/ Failed("pnpm test", "ddk-ts")

C32_TestsBeforeManifests ==
    RequiredTestFailed =>
        /\ Exited /\ exitCode = 1
        /\ content = original
        /\ \A p \in Manifests :
              manifests[p].exists => manifests[p].ver = VersionIn(p, original[p])
        /\ \A k \in Idx : trace[k].cmd # "write"

\* the Rust tests pass, the optional tests fail, the TypeScript tests fail
C32_Witness ==
    /\ Passed("cargo test", "ddk-ffi") /\ Failed("pnpm test", "ddk-rn")
    /\ Failed("pnpm test", "ddk-ts")
    /\ Exited /\ exitCode = 1
    /\ \A p \in Manifests : manifests[p].exists /\ content[p] = original[p]


(***************************************************************************)
(* C33.  An optional platform build failure is a warning, a required one   *)
(* is fatal: with the NDK configured a failing just build-android is       *)
(* logged as a warning and the run continues with applyHotFix, up to       *)
(* completion when no fatal step fails; on macOS a failing just build-ios  *)
(* ends the run with exit 1 before any packaging or git operation.         *)
(***************************************************************************)
AndroidFailedWarning == "Android build failed (may be missing toolchain)"
AfterBuildFns ==
    {"createReleaseArtifacts", "commitChanges", "createTag", "pushToGitHub",
     "createGitHubRelease", "publishNpmPackages"}

C33_OptionalAndRequiredBuilds ==
    /\ \A k \in Idx : Is(trace[k], "just build-android", "root") /\ ~trace[k].ok =>
          /\ ndk
          /\ Printed(AndroidFailedWarning)
          /\ k = Len(trace) => pc = "applyHotFix"
          /\ NextStepIn(k, {"applyHotFix"})
    /\ ValidRun /\ Exited /\ ~SomeFatalFailed => exitCode = 0
    /\ \A k \in Idx : Is(trace[k], "just build-ios", "root") /\ ~trace[k].ok =>
          /\ darwin
          /\ k = Len(trace) /\ Exited /\ exitCode = 1
          /\ \A j \in Idx : trace[j].fn \notin AfterBuildFns
          /\ ArchivesUntouched /\ GitUntouched /\ NothingReleased

\* the Android build failed and the run went on to publish both packages
C33_Witness ==
    /\ ndk /\ Failed("just build-android", "root") /\ Printed(AndroidFailedWarning)
    /\ Exited /\ exitCode = 0 /\ BothPublished


(***************************************************************************)
(* C34.  Publishing is not atomic across the two packages: when            *)
(* @bennyblader/ddk-rn was published and publishing @bennyblader/ddk-ts    *)
(* fails, the run exits 1 with ddk-rn published and ddk-ts not, the pushed *)
(* tag and the GitHub release still there, and the registry verification   *)
(* never run.                                                              *)
(***************************************************************************)
NpmPublish == "npm publish --access public"
TsPublishFailed == Passed(NpmPublish, "ddk-rn") /\ Failed(NpmPublish, "ddk-ts")

C34_PublishNotAtomic ==
    /\ Ran(NpmPublish, "ddk-ts") => Passed(NpmPublish, "ddk-rn")
    /\ TsPublishFailed =>
          /\ Exited /\ exitCode = 1
          /\ published = {RnPackage}
          /\ git.tag /\ git.remoteTag /\ git.remoteBranch
          /\ release = {version}
          /\ ~Ran("npm view version", RnPackage) /\ ~Ran("npm view version", TsPackage)
          /\ observed = [rn |-> NoVersion, ts |-> NoVersion]
          /\ ~trace[Len(trace)].ok /\ Is(trace[Len(trace)], NpmPublish, "ddk-ts")

C34_Witness ==
    /\ TsPublishFailed /\ Exited /\ exitCode = 1
    /\ published = {RnPackage} /\ git.remoteTag /\ release = {version}


(***************************************************************************)
(* C35: in release.js a failing gh release upload is only a warning and    *)
(* the script still completes with success, and the archive files named in *)
(* the printed manual upload commands still exist on disk when the script  *)
(* exits.                                                                  *)
(***************************************************************************)
UploadFailed == Failed("gh release upload", "root")
UploadWarning == "Failed to upload binary archives."

C35_ManualUploadPossible ==
    UploadFailed =>
        /\ Printed(UploadWarning) /\ rnRelease.manual # {}
        /\ pc \in {"cleanupArchives", "exited"}
        /\ Exited /\ ~Failed("rm -rf", "root") => exitCode = 0 /\ ReleaseCompleted
        /\ Exited => rnRelease.manual \subseteq rnRelease.archives


(***************************************************************************)
(* C36: in create-binary-archives.js, when a platform's output is absent   *)
(* (the jniLibs directory, the ddk-rn/ios directory, or any .xcframework   *)
(* in it), the archive of that platform is skipped with a warning, the     *)
(* archive of the other platform is still produced, and the script exits   *)
(* 0.                                                                      *)
(***************************************************************************)
AndroidAbsent == ~outputs.jniLibs
IosAbsent == ~outputs.iosDir \/ outputs.frameworks = 0
CommandFailed == \E k \in Idx : ~trace[k].ok /\ trace[k].cmd # "readdir"

C36_AbsentPlatformSkipped ==
    Exited /\ ~CommandFailed =>
        /\ AndroidAbsent \/ IosAbsent => exitCode = 0
        /\ AndroidAbsent =>
              /\ Printed(AndroidArchiveSkipped) /\ AndroidJniArchive \notin fsys.files
              /\ ~IosAbsent => IosFrameworksArchive \in fsys.files
        /\ IosAbsent =>
              /\ Printed(IosArchiveSkipped) /\ IosFrameworksArchive \notin fsys.files
              /\ ~AndroidAbsent => AndroidJniArchive \in fsys.files


(***************************************************************************)
(* C37, as stated: in postinstall.js a native build command is executed    *)
(* only if CI is unset or BUILD_NATIVE_LIBS is set, and                    *)
(* uniffi-bindgen-react-native is available, and the bundled ddk-ffi       *)
(* directory and the eleven source files exist; with CI set and            *)
(* BUILD_NATIVE_LIBS unset the script exits 0 having run no build and      *)
(* written no file; with a missing prerequisite it exits 1 having run no   *)
(* build.                                                                  *)
(***************************************************************************)
BuildRan == \E k \in Idx : trace[k].fn \in {"buildIOS", "buildAndroid"}
PrerequisitesMet ==
    /\ install.npx \/ install.global
    /\ install.ffiDir
    /\ \A k \in 1..Len(SourceFiles) : SourceFiles[k] \in install.present
Started == pc # "start"

C37_Original ==
    /\ BuildRan =>
          (~install.CI.set \/ install.BUILD_NATIVE_LIBS.set) /\ PrerequisitesMet
    /\ Started /\ install.CI.set /\ ~install.BUILD_NATIVE_LIBS.set =>
          Exited /\ exitCode = 0 /\ ~BuildRan /\ install.written = {}

(***************************************************************************)
(* C37, amended: a build command is executed only if CI is unset or empty  *)
(* or BUILD_NATIVE_LIBS is set to a non-empty string, and the tool is      *)
(* available, and the ddk-ffi directory and the eleven source files exist. *)
(* With CI non-empty and BUILD_NATIVE_LIBS unset or empty the script exits *)
(* 0 having run no build and written no file; otherwise, with a missing    *)
(* prerequisite, it exits 1 having run no build and written no file.       *)
(***************************************************************************)
SkippedInCI == Truthy(install.CI) /\ ~Truthy(install.BUILD_NATIVE_LIBS)

C37_BuildGuards ==
    /\ BuildRan => ~SkippedInCI /\ PrerequisitesMet
    /\ Started /\ SkippedInCI =>
          Exited /\ exitCode = 0 /\ ~BuildRan /\ install.written = {} /\ trace = <<>>
    /\ ~SkippedInCI /\ ~PrerequisitesMet =>
          /\ pc \in {"start", "prerequisites", "exited"}
          /\ Exited => exitCode = 1
          /\ ~BuildRan /\ install.written = {} /\ trace = <<>>
    /\ Len(SourceFiles) = 11

\* CI is set to the empty string and the builds run
C37_Witness ==
    /\ install.CI = EnvString(<<>>) /\ ~install.BUILD_NATIVE_LIBS.set
    /\ PrerequisitesMet
    /\ Passed("build ios --and-generate", "npx uniffi-bindgen-react-native")
    /\ Exited /\ exitCode = 0


(***************************************************************************)
(* C38: the binary download postinstall is idempotent on a host that is    *)
(* not macOS: after it has downloaded and extracted android-jni-libs.tar.gz *)
(* as create-binary-archives.js produces it, a second run finds the        *)
(* binaries installed (android/src/main/jniLibs/arm64-v8a exists) and      *)
(* exits 0 without downloading anything.                                   *)
(***************************************************************************)
Arm64Built == \E e \in install.released.android : e[1] = "arm64-v8a"

C38_SecondRunSkips ==
    ~darwin /\ Arm64Built =>
        \A n \in 1..Len(install.history) :
            install.history[n] = "installed" =>
                /\ ExistsSync(install.disk, androidLibsDir \o <<"arm64-v8a">>)
                /\ n < Len(install.history) => install.history[n + 1] = "already"


(***************************************************************************)
(* C39: the ts-release script runs its steps in the documented order       *)
(* (clean-tree check, version update, build, tests, commit and tag, push,  *)
(* npm publish) and stops at the first step that fails, so npm publish     *)
(* runs only after the commit, the tag, the branch push and the tag push   *)
(* have all succeeded.                                                     *)
(***************************************************************************)
\* the commands run so far are the first ones of the script, in its order
TsInOrder ==
    /\ Len(trace) <= Len(TsReleaseCommands)
    /\ \A k \in 1..Len(trace) : trace[k].cmd = TsReleaseCommands[k]

\* a step that did not pass is the last one, and the script has ended in
\* failure
TsStopsAtFailure ==
    \A k \in 1..Len(trace) :
        ~trace[k].ok => k = Len(trace) /\ pc = "exited" /\ exitCode # 0

TsPublishLast ==
    (\E k \in 1..Len(trace) : trace[k].cmd = TsReleaseCommands[10]) =>
        git.commit /\ git.tag /\ git.remoteBranch /\ git.remoteTag

C39_OrderedAndStopsAtFailure == TsInOrder /\ TsStopsAtFailure /\ TsPublishLast

====
